---- MODULE Spec2Model ----
(***************************************************************************)
(* Lead triage of agrawalapurw/LM_Automation: the reference-list checks,   *)
(* the University Detector, the Domain Validator and the stages of a       *)
(* main() run (parse, move, status update, sheets, Mass Market marking).   *)
(*                                                                         *)
(* Text is modelled as a sequence of one-character strings, so that        *)
(* substring, suffix and word tests are computed as the Python code        *)
(* computes them.                                                          *)
(***************************************************************************)
EXTENDS Integers, Sequences, FiniteSets, TLC

\* ------------------------------------------------------------------ text

LowerLetters ==
    << "a","b","c","d","e","f","g","h","i","j","k","l","m",
       "n","o","p","q","r","s","t","u","v","w","x","y","z" >>

UpperLetters ==
    << "A","B","C","D","E","F","G","H","I","J","K","L","M",
       "N","O","P","Q","R","S","T","U","V","W","X","Y","Z" >>

DigitChars == { "0","1","2","3","4","5","6","7","8","9" }

\* The ASCII characters of the model that are neither letters nor digits.
AsciiOther == { " ", "\t", "\n", ".", "@", "-", "_", "&", ",", "/", ":", "'", "(", ")", "?" }

Whitespace == { " ", "\t", "\n" }

\* Letters outside ASCII: the umlauts normalize_text replaces itself, and
\* accented letters that NFKD decomposes into an ASCII letter and a mark.
UmlautLower == << "ä", "ö", "ü" >>
UmlautUpper == << "Ä", "Ö", "Ü" >>
UmlautBase  == << "a", "o", "u" >>
AccentLower == << "é", "è", "ç", "ñ" >>
AccentUpper == << "É", "È", "Ç", "Ñ" >>
AccentBase  == << "e", "e", "c", "n" >>

Range(f) == { f[i] : i \in DOMAIN f }

IndexOf(seq, c) == CHOOSE i \in DOMAIN seq : seq[i] = c

IsLowerAscii(c) == c \in Range(LowerLetters)
IsUpperAscii(c) == c \in Range(UpperLetters)
IsAscii(c) == IsLowerAscii(c) \/ IsUpperAscii(c) \/ c \in DigitChars \/ c \in AsciiOther

\* [a-z0-9]
IsLowerAlnum(c) == IsLowerAscii(c) \/ c \in DigitChars

\* [A-Za-z0-9.-]
IsDomainChar(c) == IsLowerAscii(c) \/ IsUpperAscii(c) \/ c \in DigitChars \/ c \in { ".", "-" }

\* \w of a Python 3 str pattern: Unicode letters, digits and the underscore.
IsWordChar(c) ==
    \/ IsLowerAscii(c) \/ IsUpperAscii(c) \/ c \in DigitChars \/ c = "_"
    \/ c \in Range(UmlautLower) \/ c \in Range(UmlautUpper) \/ c = "ß"
    \/ c \in Range(AccentLower) \/ c \in Range(AccentUpper)

\* str.lower() on one character.
LowerChar(c) ==
    IF IsUpperAscii(c) THEN LowerLetters[IndexOf(UpperLetters, c)]
    ELSE IF c \in Range(UmlautUpper) THEN UmlautLower[IndexOf(UmlautUpper, c)]
    ELSE IF c \in Range(AccentUpper) THEN AccentLower[IndexOf(AccentUpper, c)]
    ELSE c

Lower(s) == [ i \in DOMAIN s |-> LowerChar(s[i]) ]

RECURSIVE Flatten(_)
Flatten(ss) == IF ss = << >> THEN << >> ELSE Head(ss) \o Flatten(Tail(ss))

RECURSIVE LStrip(_)
LStrip(s) == IF s # << >> /\ Head(s) \in Whitespace THEN LStrip(Tail(s)) ELSE s

RECURSIVE RStrip(_)
RStrip(s) ==
    IF s # << >> /\ s[Len(s)] \in Whitespace THEN RStrip(SubSeq(s, 1, Len(s) - 1)) ELSE s

\* str.strip()
Strip(s) == RStrip(LStrip(s))

\* a in b (Python substring test); the empty string is in every string.
Contains(b, a) ==
    \E i \in 0 .. (Len(b) - Len(a)) : SubSeq(b, i + 1, i + Len(a)) = a

\* s.endswith(suf)
EndsWith(s, suf) ==
    Len(suf) <= Len(s) /\ SubSeq(s, Len(s) - Len(suf) + 1, Len(s)) = suf

\* s.startswith(pre)
StartsWith(s, pre) == Len(pre) <= Len(s) /\ SubSeq(s, 1, Len(pre)) = pre

\* s.split(sep) for a one-character separator: empty pieces are kept.
RECURSIVE SplitOn(_, _)
SplitOn(s, sep) ==
    IF \A i \in DOMAIN s : s[i] # sep THEN << s >>
    ELSE LET i == CHOOSE k \in DOMAIN s : s[k] = sep /\ \A j \in 1 .. (k - 1) : s[j] # sep
         IN  << SubSeq(s, 1, i - 1) >> \o SplitOn(SubSeq(s, i + 1, Len(s)), sep)

\* s.split(): the maximal runs of non-whitespace characters.
RECURSIVE SplitWords(_)
SplitWords(s) ==
    LET t == LStrip(s)
    IN  IF t = << >> THEN << >>
        ELSE IF \A i \in DOMAIN t : t[i] \notin Whitespace THEN << t >>
        ELSE LET i == CHOOSE k \in DOMAIN t :
                          t[k] \in Whitespace /\ \A j \in 1 .. (k - 1) : t[j] \notin Whitespace
             IN  << SubSeq(t, 1, i - 1) >> \o SplitWords(SubSeq(t, i + 1, Len(t)))

\* An f-string: its template and the values it interpolates.
Fmt(template, a, b) == [ fmt |-> template, a |-> a, b |-> b ]

NoText == << >>

\* ------------------------------------------------ university_detector.py

FREE_MAILERS ==
    { <<"g","m","a","i","l",".","c","o","m">>, <<"y","a","h","o","o",".","c","o","m">>,
      <<"o","u","t","l","o","o","k",".","c","o","m">>,
      <<"h","o","t","m","a","i","l",".","c","o","m">>, <<"l","i","v","e",".","c","o","m">>,
      <<"a","o","l",".","c","o","m">>, <<"i","c","l","o","u","d",".","c","o","m">>,
      <<"m","a","i","l",".","c","o","m">>, <<"p","r","o","t","o","n",".","m","e">>,
      <<"p","r","o","t","o","n","m","a","i","l",".","c","o","m">>,
      <<"g","m","x",".","c","o","m">>, <<"g","m","x",".","d","e">>,
      <<"w","e","b",".","d","e">>, <<"y","a","n","d","e","x",".","c","o","m">>,
      <<"z","o","h","o",".","c","o","m">>, <<"q","q",".","c","o","m">> }

ACADEMIC_TLDS ==
    << <<".","e","d","u">>, <<".","a","c",".","u","k">>, <<".","a","c",".","a","t">>,
       <<".","a","c",".","b","e">>, <<".","a","c",".","i","l">>, <<".","a","c",".","j","p">>,
       <<".","e","d","u",".","a","u">>, <<".","e","d","u",".","c","n">>,
       <<".","e","d","u",".","s","g">>, <<".","e","d","u",".","h","k">>,
       <<".","e","d","u",".","t","w">> >>

CORE_ACADEMIC_WORDS ==
    { <<"u","n","i","v","e","r","s","i","t","y">>,
      <<"u","n","i","v","e","r","s","i","t","a","t">>,
      <<"u","n","i","v","e","r","s","i","t","a","e","t">>,
      <<"u","n","i","v","e","r","s","i","t","e">>, <<"u","n","i","v","e","r","s","i","t","a">>,
      <<"u","n","i","v","e","r","s","i","d","a","d">>,
      <<"u","n","i","v","e","r","s","i","d","a","d","e">>,
      <<"h","o","c","h","s","c","h","u","l","e">>,
      <<"f","a","c","h","h","o","c","h","s","c","h","u","l","e">>,
      <<"c","o","l","l","e","g","e">>, <<"p","o","l","y","t","e","c","h","n","i","c">>,
      <<"p","o","l","y","t","e","c","h","n","i","q","u","e">>,
      <<"p","o","l","i","t","e","c","n","i","c","o">> }

STRICT_ACADEMIC_DOMAIN_TOKENS ==
    { <<"u","n","i","v","e","r","s","i","t","y">>,
      <<"u","n","i","v","e","r","s","i","t","a","t">>, <<"c","o","l","l","e","g","e">>,
      <<"a","c","a","d","e","m","i","c">>, <<"s","c","h","o","l","a","r">>,
      <<"c","a","m","p","u","s">>, <<"e","d","u">> }

COMMERCIAL_COMPANIES ==
    { <<"a","i","r","b","u","s">>, <<"b","o","s","c","h">>, <<"s","i","e","m","e","n","s">>,
      <<"b","m","w">>, <<"m","e","r","c","e","d","e","s">>,
      <<"v","o","l","k","s","w","a","g","e","n">>, <<"v","w">>, <<"a","u","d","i">>,
      <<"c","o","n","t","i","n","e","n","t","a","l">>, <<"z","f">>,
      <<"s","c","h","a","e","f","f","l","e","r">>, <<"m","a","h","l","e">>,
      <<"p","o","r","s","c","h","e">>, <<"d","a","i","m","l","e","r">>, <<"o","p","e","l">>,
      <<"f","o","r","d">>, <<"r","e","n","a","u","l","t">>, <<"p","e","u","g","e","o","t">>,
      <<"c","i","t","r","o","e","n">>, <<"f","i","a","t">>,
      <<"a","l","f","a"," ","r","o","m","e","o">>, <<"f","e","r","r","a","r","i">>,
      <<"l","a","m","b","o","r","g","h","i","n","i">>, <<"i","n","t","e","l">>,
      <<"g","o","o","g","l","e">>, <<"a","m","a","z","o","n">>,
      <<"m","i","c","r","o","s","o","f","t">>, <<"s","a","p">>, <<"o","r","a","c","l","e">>,
      <<"i","b","m">>, <<"a","p","p","l","e">>, <<"s","a","m","s","u","n","g">>,
      <<"h","u","a","w","e","i">>, <<"c","i","s","c","o">>, <<"h","p">>, <<"d","e","l","l">>,
      <<"l","e","n","o","v","o">>, <<"a","s","u","s">>, <<"a","c","e","r">>,
      <<"i","n","f","i","n","e","o","n">>, <<"n","x","p">>,
      <<"s","t","m","i","c","r","o","e","l","e","c","t","r","o","n","i","c","s">>,
      <<"t","e","x","a","s"," ","i","n","s","t","r","u","m","e","n","t","s">>,
      <<"a","n","a","l","o","g"," ","d","e","v","i","c","e","s">>,
      <<"q","u","a","l","c","o","m","m">>, <<"n","v","i","d","i","a">>, <<"a","m","d">>,
      <<"a","r","m">>, <<"b","r","o","a","d","c","o","m">>, <<"a","b","b">>,
      <<"s","c","h","n","e","i","d","e","r">>, <<"p","h","i","l","i","p","s">>,
      <<"b","a","s","f">>, <<"b","a","y","e","r">>,
      <<"t","h","y","s","s","e","n","k","r","u","p","p">>, <<"l","i","n","d","e">>,
      <<"h","e","n","k","e","l">>, <<"c","o","v","e","s","t","r","o">>,
      <<"w","a","c","k","e","r">>, <<"e","v","o","n","i","k">>,
      <<"l","a","n","x","e","s","s">>, <<"m","e","r","c","k">>,
      <<"f","r","e","s","e","n","i","u","s">>, <<"k","u","k","a">>,
      <<"t","r","u","m","p","f">>, <<"f","e","s","t","o">>, <<"s","i","c","k">>,
      <<"p","e","p","p","e","r","l"," ","f","u","c","h","s">>, <<"b","a","l","l","u","f","f">>,
      <<"t","u","r","c","k">>,
      <<"d","e","u","t","s","c","h","e"," ","t","e","l","e","k","o","m">>,
      <<"o","r","a","n","g","e">>, <<"v","o","d","a","f","o","n","e">>,
      <<"t","e","l","e","f","o","n","i","c","a">>, <<"b","t">>,
      <<"s","w","i","s","s","c","o","m">>, <<"p","r","o","x","i","m","u","s">>,
      <<"k","p","n">>, <<"t","e","l","e","c","o","m"," ","i","t","a","l","i","a">>,
      <<"t","e","l","e","k","o","m"," ","a","u","s","t","r","i","a">>,
      <<"s","i","e","m","e","n","s"," ","e","n","e","r","g","y">>, <<"v","e","s","t","a","s">>,
      <<"e","o","n">>, <<"r","w","e">>, <<"e","n","g","i","e">>, <<"e","d","f">>,
      <<"i","b","e","r","d","r","o","l","a">>, <<"t","o","t","a","l">>,
      <<"s","h","e","l","l">>, <<"b","p">>, <<"e","n","i">>, <<"e","q","u","i","n","o","r">>,
      <<"a","i","r","b","u","s"," ","d","e","f","e","n","c","e">>, <<"t","h","a","l","e","s">>,
      <<"l","e","o","n","a","r","d","o">>, <<"s","a","f","r","a","n">>,
      <<"r","o","l","l","s"," ","r","o","y","c","e">>, <<"m","t","u">>,
      <<"d","i","e","h","l">>, <<"h","e","n","s","o","l","d","t">>,
      <<"r","h","e","i","n","m","e","t","a","l","l">>, <<"a","c","c","e","n","t","u","r","e">>,
      <<"d","e","l","o","i","t","t","e">>, <<"p","w","c">>, <<"k","p","m","g">>, <<"e","y">>,
      <<"m","c","k","i","n","s","e","y">>, <<"b","c","g">>, <<"b","a","i","n">>,
      <<"c","a","p","g","e","m","i","n","i">>, <<"a","t","o","s">>,
      <<"s","o","p","r","a"," ","s","t","e","r","i","a">>, <<"g","f","t">>, <<"m","s","g">>,
      <<"a","d","e","s","s","o">>, <<"r","o","b","e","r","t"," ","b","o","s","c","h">>,
      <<"c","o","n","t","i","n","e","n","t","a","l"," ","a","u","t","o","m","o","t","i","v","e">>,
      <<"v","a","l","e","o">>, <<"h","e","l","l","a">>, <<"o","s","r","a","m">>,
      <<"l","e","d","v","a","n","c","e">>, <<"w","e","i","d","m","u","l","l","e","r">>,
      <<"p","h","o","e","n","i","x"," ","c","o","n","t","a","c","t">>, <<"w","a","g","o">>,
      <<"m","u","r","r","e","l","e","k","t","r","o","n","i","k">>,
      <<"h","a","r","t","i","n","g">>, <<"l","a","p","p">>,
      <<"c","l","a","r","i","a","n","t">>, <<"s","o","l","v","a","y">>,
      <<"a","k","z","o","n","o","b","e","l">>, <<"a","r","k","e","m","a">>,
      <<"b","r","e","n","n","t","a","g">>, <<"a","l","t","a","n","a">>,
      <<"r","o","c","h","e">>, <<"n","o","v","a","r","t","i","s">>,
      <<"s","a","n","o","f","i">>,
      <<"b","a","y","e","r"," ","h","e","a","l","t","h","c","a","r","e">>,
      <<"f","r","e","s","e","n","i","u","s"," ","m","e","d","i","c","a","l">>,
      <<"s","i","e","m","e","n","s"," ","h","e","a","l","t","h","i","n","e","e","r","s">>,
      <<"p","h","i","l","i","p","s"," ","h","e","a","l","t","h","c","a","r","e">>,
      <<"a","r","r","o","w">>, <<"a","v","n","e","t">>,
      <<"f","u","t","u","r","e"," ","e","l","e","c","t","r","o","n","i","c","s">>,
      <<"r","u","t","r","o","n","i","k">>, <<"d","i","s","t","r","e","l","e","c">>,
      <<"f","a","r","n","e","l","l">>, <<"m","o","u","s","e","r">>,
      <<"d","i","g","i","k","e","y">>, <<"r","s"," ","c","o","m","p","o","n","e","n","t","s">>,
      <<"w","u","r","t","h"," ","e","l","e","k","t","r","o","n","i","k">>,
      <<"n","e","x","u","s"," ","q","u","a","n","t","u","m">>, <<"n","e","x","u","s">>,
      <<"q","u","a","n","t","u","m"," ","e","n","g","i","n","e","e","r","i","n","g">>,
      <<"e","n","g","i","n","e","e","r","i","n","g"," ","s","o","l","u","t","i","o","n","s">>,
      <<"t","e","c","h"," ","s","o","l","u","t","i","o","n","s">>,
      <<"i","n","n","o","v","a","t","i","v","e"," ","e","n","g","i","n","e","e","r","i","n","g">>,
      <<"t","r","a","i","n","i","n","g">>, <<"c","o","n","s","u","l","t","i","n","g">>,
      <<"g","m","b","h">>, <<"a","g">>, <<"s","e">>, <<"l","t","d">>,
      <<"l","i","m","i","t","e","d">>, <<"i","n","c">>,
      <<"c","o","r","p","o","r","a","t","i","o","n">>, <<"c","o","r","p">>,
      <<"s","o","l","u","t","i","o","n","s">>, <<"s","e","r","v","i","c","e","s">>,
      <<"s","y","s","t","e","m","s">>, <<"t","e","c","h","n","o","l","o","g","i","e","s">>,
      <<"t","e","c","h">>, <<"g","r","o","u","p">>, <<"h","o","l","d","i","n","g">>,
      <<"p","a","r","t","n","e","r">>, <<"i","n","t","e","r","n","a","t","i","o","n","a","l">>,
      <<"q","u","a","n","t","u","m">> }

COMMERCIAL_INDICATORS ==
    { <<"g","m","b","h">>, <<"a","g">>, <<"l","t","d">>, <<"l","i","m","i","t","e","d">>,
      <<"i","n","c">>, <<"c","o","r","p">>, <<"c","o","r","p","o","r","a","t","i","o","n">>,
      <<"l","l","c">>, <<"c","o","n","s","u","l","t","i","n","g">>,
      <<"c","o","n","s","u","l","t","a","n","c","y">>, <<"s","o","l","u","t","i","o","n","s">>,
      <<"s","e","r","v","i","c","e","s">>, <<"s","y","s","t","e","m","s">>,
      <<"t","e","c","h","n","o","l","o","g","i","e","s">>, <<"t","e","c","h">>,
      <<"g","r","o","u","p">>, <<"h","o","l","d","i","n","g">>,
      <<"h","o","l","d","i","n","g","s">>, <<"p","a","r","t","n","e","r">>,
      <<"p","a","r","t","n","e","r","s">>,
      <<"i","n","t","e","r","n","a","t","i","o","n","a","l">>, <<"g","l","o","b","a","l">>,
      <<"w","o","r","l","d","w","i","d","e">>, <<"q","u","a","n","t","u","m">>,
      <<"n","e","x","u","s">>, <<"i","n","n","o","v","a","t","i","v","e">>,
      <<"a","d","v","a","n","c","e","d">>, <<"s","m","a","r","t">>,
      <<"d","i","g","i","t","a","l">>,
      <<"e","n","g","i","n","e","e","r","i","n","g"," ","s","o","l","u","t","i","o","n","s">>,
      <<"e","n","g","i","n","e","e","r","i","n","g"," ","s","e","r","v","i","c","e","s">>,
      <<"t","e","c","h","n","i","c","a","l"," ","s","e","r","v","i","c","e","s">> }

KNOWN_UNIVERSITIES ==
    << [key |-> <<"g","e","r","m","a","n","y">>, vals |->
          { <<"f","a","c","h","h","o","c","h","s","c","h","u","l","e">>,
            <<"f","r","e","i","e"," ","u","n","i","v","e","r","s","i","t","a","t"," ","b","e","r","l","i","n">>,
            <<"h","o","c","h","s","c","h","u","l","e"," ","d","a","r","m","s","t","a","d","t">>,
            <<"h","o","c","h","s","c","h","u","l","e"," ","m","u","n","c","h","e","n">>,
            <<"h","u","m","b","o","l","d","t"," ","u","n","i","v","e","r","s","i","t","a","t">>,
            <<"k","a","r","l","s","r","u","h","e","r"," ","i","n","s","t","i","t","u","t"," ","f","u","r"," ","t","e","c","h","n","o","l","o","g","i","e">>,
            <<"k","i","t">>, <<"l","m","u">>, <<"l","m","u"," ","m","u","n","c","h","e","n">>,
            <<"l","u","d","w","i","g"," ","m","a","x","i","m","i","l","i","a","n","s"," ","u","n","i","v","e","r","s","i","t","a","t">>,
            <<"r","h","e","i","n","i","s","c","h"," ","w","e","s","t","f","a","l","i","s","c","h","e"," ","t","e","c","h","n","i","s","c","h","e"," ","h","o","c","h","s","c","h","u","l","e">>,
            <<"r","w","t","h"," ","a","a","c","h","e","n">>,
            <<"t","e","c","h","n","i","s","c","h","e"," ","u","n","i","v","e","r","s","i","t","a","t"," ","d","a","r","m","s","t","a","d","t">>,
            <<"t","e","c","h","n","i","s","c","h","e"," ","u","n","i","v","e","r","s","i","t","a","t"," ","m","u","n","c","h","e","n">>,
            <<"t","u"," ","b","e","r","l","i","n">>,
            <<"t","u"," ","b","r","a","u","n","s","c","h","w","e","i","g">>,
            <<"t","u"," ","d","a","r","m","s","t","a","d","t">>,
            <<"t","u"," ","d","r","e","s","d","e","n">>,
            <<"t","u"," ","m","u","n","c","h","e","n">>, <<"t","u","m">>,
            <<"u","n","i","v","e","r","s","i","t","a","t"," ","f","r","e","i","b","u","r","g">>,
            <<"u","n","i","v","e","r","s","i","t","a","t"," ","g","o","t","t","i","n","g","e","n">>,
            <<"u","n","i","v","e","r","s","i","t","a","t"," ","h","e","i","d","e","l","b","e","r","g">> }
       ],
       [key |-> <<"d","e">>, vals |->
          { <<"f","h"," ","a","a","c","h","e","n">>,
            <<"h","o","c","h","s","c","h","u","l","e"," ","d","a","r","m","s","t","a","d","t">>,
            <<"h","o","c","h","s","c","h","u","l","e"," ","m","u","n","c","h","e","n">>,
            <<"k","i","t">>, <<"l","m","u">>, <<"r","w","t","h">>,
            <<"r","w","t","h"," ","a","a","c","h","e","n">>,
            <<"t","u"," ","b","e","r","l","i","n">>,
            <<"t","u"," ","d","a","r","m","s","t","a","d","t">>,
            <<"t","u"," ","d","r","e","s","d","e","n">>,
            <<"t","u"," ","m","u","n","c","h","e","n">>, <<"t","u","m">> }
       ],
       [key |-> <<"u","k">>, vals |->
          { <<"c","a","m","b","r","i","d","g","e"," ","u","n","i","v","e","r","s","i","t","y">>,
            <<"i","m","p","e","r","i","a","l"," ","c","o","l","l","e","g","e">>,
            <<"i","m","p","e","r","i","a","l"," ","c","o","l","l","e","g","e"," ","l","o","n","d","o","n">>,
            <<"k","c","l">>,
            <<"k","i","n","g","s"," ","c","o","l","l","e","g","e"," ","l","o","n","d","o","n">>,
            <<"l","o","n","d","o","n"," ","s","c","h","o","o","l"," ","o","f"," ","e","c","o","n","o","m","i","c","s">>,
            <<"l","s","e">>,
            <<"o","x","f","o","r","d"," ","u","n","i","v","e","r","s","i","t","y">>,
            <<"u","c","l">>,
            <<"u","n","i","v","e","r","s","i","t","y"," ","c","o","l","l","e","g","e"," ","l","o","n","d","o","n">>,
            <<"u","n","i","v","e","r","s","i","t","y"," ","o","f"," ","c","a","m","b","r","i","d","g","e">>,
            <<"u","n","i","v","e","r","s","i","t","y"," ","o","f"," ","e","d","i","n","b","u","r","g","h">>,
            <<"u","n","i","v","e","r","s","i","t","y"," ","o","f"," ","m","a","n","c","h","e","s","t","e","r">>,
            <<"u","n","i","v","e","r","s","i","t","y"," ","o","f"," ","o","x","f","o","r","d">>,
            <<"u","n","i","v","e","r","s","i","t","y"," ","o","f"," ","w","a","r","w","i","c","k">> }
       ],
       [key |-> <<"u","n","i","t","e","d"," ","k","i","n","g","d","o","m">>, vals |->
          { <<"c","a","m","b","r","i","d","g","e">>, <<"e","d","i","n","b","u","r","g","h">>,
            <<"i","m","p","e","r","i","a","l">>, <<"m","a","n","c","h","e","s","t","e","r">>,
            <<"o","x","f","o","r","d">>, <<"u","c","l">>, <<"w","a","r","w","i","c","k">> }
       ],
       [key |-> <<"f","r","a","n","c","e">>, vals |->
          { <<"e","c","o","l","e"," ","n","o","r","m","a","l","e"," ","s","u","p","e","r","i","e","u","r","e">>,
            <<"e","c","o","l","e"," ","p","o","l","y","t","e","c","h","n","i","q","u","e">>,
            <<"s","o","r","b","o","n","n","e">>,
            <<"u","n","i","v","e","r","s","i","t","e"," ","d","e"," ","l","a"," ","s","o","r","b","o","n","n","e">>,
            <<"u","n","i","v","e","r","s","i","t","e"," ","d","e"," ","l","y","o","n">>,
            <<"u","n","i","v","e","r","s","i","t","e"," ","d","e"," ","t","o","u","l","o","u","s","e">>,
            <<"u","n","i","v","e","r","s","i","t","e"," ","p","a","r","i","s">> }
       ],
       [key |-> <<"i","t","a","l","y">>, vals |->
          { <<"p","o","l","i","t","e","c","n","i","c","o"," ","d","i"," ","m","i","l","a","n","o">>,
            <<"p","o","l","i","t","e","c","n","i","c","o"," ","d","i"," ","t","o","r","i","n","o">>,
            <<"s","a","p","i","e","n","z","a">>,
            <<"u","n","i","v","e","r","s","i","t","a"," ","d","i"," ","b","o","l","o","g","n","a">>,
            <<"u","n","i","v","e","r","s","i","t","a"," ","d","i"," ","p","a","d","o","v","a">>,
            <<"u","n","i","v","e","r","s","i","t","a"," ","d","i"," ","r","o","m","a">>,
            <<"u","n","i","v","e","r","s","i","t","a"," ","d","i"," ","r","o","m","a"," ","l","a"," ","s","a","p","i","e","n","z","a">> }
       ],
       [key |-> <<"s","p","a","i","n">>, vals |->
          { <<"u","n","i","v","e","r","s","i","d","a","d"," ","a","u","t","o","n","o","m","a"," ","d","e"," ","m","a","d","r","i","d">>,
            <<"u","n","i","v","e","r","s","i","d","a","d"," ","c","o","m","p","l","u","t","e","n","s","e">>,
            <<"u","n","i","v","e","r","s","i","d","a","d"," ","p","o","l","i","t","e","c","n","i","c","a"," ","d","e"," ","m","a","d","r","i","d">>,
            <<"u","n","i","v","e","r","s","i","d","a","d"," ","p","o","l","i","t","e","c","n","i","c","a"," ","d","e"," ","v","a","l","e","n","c","i","a">>,
            <<"u","n","i","v","e","r","s","i","t","a","t"," ","d","e"," ","b","a","r","c","e","l","o","n","a">> }
       ],
       [key |-> <<"n","e","t","h","e","r","l","a","n","d","s">>, vals |->
          { <<"l","e","i","d","e","n"," ","u","n","i","v","e","r","s","i","t","y">>,
            <<"t","e","c","h","n","i","s","c","h","e"," ","u","n","i","v","e","r","s","i","t","e","i","t"," ","d","e","l","f","t">>,
            <<"t","u"," ","d","e","l","f","t">>,
            <<"u","n","i","v","e","r","s","i","t","e","i","t"," ","l","e","i","d","e","n">>,
            <<"u","n","i","v","e","r","s","i","t","e","i","t"," ","u","t","r","e","c","h","t">>,
            <<"u","n","i","v","e","r","s","i","t","e","i","t"," ","v","a","n"," ","a","m","s","t","e","r","d","a","m">>,
            <<"u","t","r","e","c","h","t"," ","u","n","i","v","e","r","s","i","t","y">>,
            <<"v","r","i","j","e"," ","u","n","i","v","e","r","s","i","t","e","i","t">>,
            <<"v","r","i","j","e"," ","u","n","i","v","e","r","s","i","t","e","i","t"," ","a","m","s","t","e","r","d","a","m">> }
       ],
       [key |-> <<"s","w","i","t","z","e","r","l","a","n","d">>, vals |->
          { <<"e","c","o","l","e"," ","p","o","l","y","t","e","c","h","n","i","q","u","e"," ","f","e","d","e","r","a","l","e">>,
            <<"e","i","d","g","e","n","o","s","s","i","s","c","h","e"," ","t","e","c","h","n","i","s","c","h","e"," ","h","o","c","h","s","c","h","u","l","e">>,
            <<"e","p","f","l">>, <<"e","t","h"," ","z","u","r","i","c","h">>,
            <<"u","n","i","v","e","r","s","i","t","a","t"," ","z","u","r","i","c","h">>,
            <<"u","n","i","v","e","r","s","i","t","e"," ","d","e"," ","g","e","n","e","v","e">> }
       ],
       [key |-> <<"a","u","s","t","r","i","a">>, vals |->
          { <<"t","e","c","h","n","i","s","c","h","e"," ","u","n","i","v","e","r","s","i","t","a","t"," ","w","i","e","n">>,
            <<"t","u"," ","g","r","a","z">>, <<"t","u"," ","w","i","e","n">>,
            <<"u","n","i","v","e","r","s","i","t","a","t"," ","w","i","e","n">> }
       ],
       [key |-> <<"t","u","r","k","e","y">>, vals |->
          { <<"a","n","k","a","r","a"," ","u","n","i","v","e","r","s","i","t","y">>,
            <<"b","i","l","k","e","n","t"," ","u","n","i","v","e","r","s","i","t","y">>,
            <<"b","o","g","a","z","i","c","i"," ","u","n","i","v","e","r","s","i","t","e","s","i">>,
            <<"b","o","g","a","z","i","c","i"," ","u","n","i","v","e","r","s","i","t","y">>,
            <<"b","u","r","s","a"," ","t","e","c","h","n","i","c","a","l"," ","u","n","i","v","e","r","s","i","t","y">>,
            <<"b","u","r","s","a"," ","t","e","k","n","i","k"," ","u","n","i","v","e","r","s","i","t","e","s","i">>,
            <<"h","a","c","e","t","t","e","p","e"," ","u","n","i","v","e","r","s","i","t","y">>,
            <<"i","s","t","a","n","b","u","l"," ","t","e","c","h","n","i","c","a","l"," ","u","n","i","v","e","r","s","i","t","y">>,
            <<"i","t","u">>, <<"k","o","c"," ","u","n","i","v","e","r","s","i","t","y">>,
            <<"m","e","t","u">>,
            <<"m","i","d","d","l","e"," ","e","a","s","t"," ","t","e","c","h","n","i","c","a","l"," ","u","n","i","v","e","r","s","i","t","y">>,
            <<"o","d","t","u">> }
       ],
       [key |-> <<"t","r">>, vals |->
          { <<"b","i","l","k","e","n","t">>, <<"b","o","g","a","z","i","c","i">>,
            <<"b","u","r","s","a"," ","t","e","c","h","n","i","c","a","l">>,
            <<"b","u","r","s","a"," ","t","e","k","n","i","k">>,
            <<"h","a","c","e","t","t","e","p","e">>, <<"i","t","u">>, <<"k","o","c">>,
            <<"m","e","t","u">>, <<"o","d","t","u">> }
       ] >>

\* One character of normalize_text before lowercasing: the umlaut replacements
\* (lines 179-181), then NFKD and encode("ascii", "ignore") (line 183).
FoldChar(c) ==
    IF c \in Range(UmlautLower) THEN << UmlautBase[IndexOf(UmlautLower, c)] >>
    ELSE IF c \in Range(UmlautUpper)
         THEN << UpperLetters[IndexOf(LowerLetters, UmlautBase[IndexOf(UmlautUpper, c)])] >>
    ELSE IF c = "ß" THEN << "s", "s" >>
    ELSE IF c \in Range(AccentLower) THEN << AccentBase[IndexOf(AccentLower, c)] >>
    ELSE IF c \in Range(AccentUpper)
         THEN << UpperLetters[IndexOf(LowerLetters, AccentBase[IndexOf(AccentUpper, c)])] >>
    ELSE IF IsAscii(c) THEN << c >>
    ELSE << >>

\* re.sub(r"[^a-z0-9]+", " ", text): every maximal run of other characters
\* becomes one space.
RECURSIVE SubNonAlnumRuns(_, _)
SubNonAlnumRuns(s, inRun) ==
    IF s = << >> THEN << >>
    ELSE IF IsLowerAlnum(Head(s)) THEN << Head(s) >> \o SubNonAlnumRuns(Tail(s), FALSE)
    ELSE (IF inRun THEN << >> ELSE << " " >>) \o SubNonAlnumRuns(Tail(s), TRUE)

normalize_text(text) ==
    IF text = << >> THEN << >>
    ELSE LET folded  == Flatten([ i \in DOMAIN text |-> FoldChar(text[i]) ])
             lowered == Lower(folded)
         IN  Strip(SubNonAlnumRuns(lowered, FALSE))

\* re.search(r'@([A-Za-z0-9.-]+)$', email.strip()): the text after the last "@",
\* when it is not empty and holds only domain characters.
extract_domain(email) ==
    LET e   == Strip(email)
        ats == { i \in DOMAIN e : e[i] = "@" }
    IN  IF email = << >> \/ ats = { } THEN << >>
        ELSE LET last == CHOOSE i \in ats : \A j \in ats : j <= i
                 rest == SubSeq(e, last + 1, Len(e))
             IN  IF rest # << >> /\ \A k \in DOMAIN rest : IsDomainChar(rest[k])
                 THEN Lower(rest) ELSE << >>

is_free_mailer(domain) == Lower(domain) \in FREE_MAILERS

has_commercial_indicators(text) ==
    /\ text # << >>
    /\ \E indicator \in COMMERCIAL_INDICATORS : Contains(normalize_text(text), indicator)

is_commercial_company(text) ==
    /\ text # << >>
    /\ \E company \in COMMERCIAL_COMPANIES :
           Contains(normalize_text(text), normalize_text(company))

has_strict_academic_tld(domain) ==
    /\ domain # << >>
    /\ \E i \in DOMAIN ACADEMIC_TLDS : EndsWith(Lower(domain), ACADEMIC_TLDS[i])

domain_contains_university_keyword(domain) ==
    /\ domain # << >>
    /\ \E token \in STRICT_ACADEMIC_DOMAIN_TOKENS : Contains(normalize_text(domain), token)

\* The institutions of every key that equals, contains or is contained in the
\* normalized country (lines 271-274).
universities_for(country_norm) ==
    UNION { KNOWN_UNIVERSITIES[k].vals : k \in
              { j \in DOMAIN KNOWN_UNIVERSITIES :
                    \/ KNOWN_UNIVERSITIES[j].key = country_norm
                    \/ Contains(country_norm, KNOWN_UNIVERSITIES[j].key)
                    \/ Contains(KNOWN_UNIVERSITIES[j].key, country_norm) } }

\* uni_matches without the containment branch: the exact comparison alone.
uni_matches_exact_only(company_norm, uni) == company_norm = normalize_text(uni)

\* One institution against the normalized company name (lines 280-297).
uni_matches(company_norm, uni) ==
    LET uni_norm == normalize_text(uni)
    IN  \/ company_norm = uni_norm
        \/ /\ Contains(company_norm, uni_norm)
           /\ \A word \in Range(SplitWords(uni_norm)) :
                  word \in Range(SplitWords(company_norm))

matches_known_university(company, country) ==
    /\ company # << >>
    /\ country # << >>
    /\ \E uni \in universities_for(normalize_text(country)) :
           uni_matches(normalize_text(company), uni)

contains_core_academic_word(text) ==
    /\ text # << >>
    /\ \E word \in Range(SplitWords(normalize_text(text))) : word \in CORE_ACADEMIC_WORDS

UniversityResult(verdict, reason, confidence) ==
    [ is_university |-> verdict, reason |-> reason, confidence |-> confidence ]

\* is_university with steps 1 and 2 exchanged: the commercial list first.
is_university_commercial_first(company, country, email) ==
    LET domain == extract_domain(email)
    IN  IF is_commercial_company(company)
        THEN UniversityResult(FALSE, Fmt("Known commercial company: {company}", company, NoText), "high")
        ELSE IF matches_known_university(company, country)
        THEN UniversityResult(TRUE, Fmt("Known university in {country}: {company}", country, company), "high")
        ELSE IF ~is_free_mailer(domain) /\ (has_strict_academic_tld(domain) \/ domain_contains_university_keyword(domain))
        THEN UniversityResult(TRUE, Fmt("Academic domain TLD: {domain}", domain, NoText), "high")
        ELSE IF contains_core_academic_word(company)
        THEN UniversityResult(~has_commercial_indicators(company),
                 Fmt("Company name contains academic keyword: {company}", company, NoText), "medium")
        ELSE UniversityResult(FALSE, Fmt("No clear university indicators", NoText, NoText), "high")

is_university(company, country, email) ==
    LET domain == extract_domain(email)
    IN  IF matches_known_university(company, country)
        THEN UniversityResult(TRUE, Fmt("Known university in {country}: {company}", country, company), "high")
        ELSE IF is_commercial_company(company)
        THEN UniversityResult(FALSE, Fmt("Known commercial company: {company}", company, NoText), "high")
        ELSE IF ~is_free_mailer(domain) /\ has_strict_academic_tld(domain)
        THEN UniversityResult(TRUE, Fmt("Academic domain TLD: {domain}", domain, NoText), "high")
        ELSE IF ~is_free_mailer(domain) /\ domain_contains_university_keyword(domain)
        THEN UniversityResult(TRUE, Fmt("Domain contains university keyword: {domain}", domain, NoText), "high")
        ELSE IF contains_core_academic_word(company) /\ has_commercial_indicators(company)
        THEN UniversityResult(FALSE,
                 Fmt("Contains academic word but has commercial indicators: {company}", company, NoText),
                 "medium")
        ELSE IF contains_core_academic_word(company)
        THEN UniversityResult(TRUE,
                 Fmt("Company name contains academic keyword: {company}", company, NoText), "medium")
        ELSE UniversityResult(FALSE, Fmt("No clear university indicators", NoText, NoText), "high")

\* --------------------------------------------------- validation_data.py

\* validation_type values, which parse_email writes to the Status column.
Country           == <<"C","o","u","n","t","r","y">>
Direct_Account    == <<"D","i","r","e","c","t"," ","A","c","c","o","u","n","t">>
Excluded_Domain   == <<"E","x","c","l","u","d","e","d"," ","D","o","m","a","i","n">>
Academic          == <<"A","c","a","d","e","m","i","c">>
Freemail          == <<"F","r","e","e","m","a","i","l">>
Valid             == <<"V","a","l","i","d">>

\* domain is ad, or ends with "." + ad
IsDotSuffix(d, ad) == EndsWith(d, << "." >> \o ad)

is_academic_domain(self, domain) ==
    LET d == Lower(Strip(domain))
    IN  /\ d # << >>
        /\ \/ d \in self.academic_domains
           \/ \E ad \in self.academic_domains : d = ad \/ IsDotSuffix(d, ad)

is_excluded_domain(self, domain) ==
    LET d == Lower(Strip(domain))
    IN  \/ d \in self.excluded_domains
        \/ \E ed \in self.excluded_domains : IsDotSuffix(d, ed)

is_direct_account(self, company) == Lower(Strip(company)) \in self.direct_accounts

is_blacklisted_country(self, country) == Lower(Strip(country)) \in self.blacklisted_countries

is_freemail_domain(self, domain) ==
    LET d == Lower(Strip(domain))
    IN  \/ d \in self.freemail_domains
        \/ \E fd \in self.freemail_domains : IsDotSuffix(d, fd)

\* email.split("@")[-1].lower().strip() when the email holds an "@" (lines 152-154)
lead_domain(email) ==
    IF email # << >> /\ "@" \in Range(email)
    THEN LET pieces == SplitOn(email, "@")
         IN  Strip(Lower(pieces[Len(pieces)]))
    ELSE << >>

LeadResult(is_valid, reason, validation_type) ==
    [ is_valid |-> is_valid, reason |-> reason, validation_type |-> validation_type ]

\* validate_lead with the academic list consulted before the excluded list.
validate_lead_academic_first(self, company, country, email) ==
    LET domain == lead_domain(email)
    IN  IF is_blacklisted_country(self, country)
        THEN LeadResult(FALSE, Fmt("Blacklisted country: {country}", country, NoText), Country)
        ELSE IF is_direct_account(self, company)
        THEN LeadResult(FALSE, Fmt("Direct account: {company}", company, NoText), Direct_Account)
        ELSE IF is_academic_domain(self, domain)
        THEN LeadResult(FALSE, Fmt("Academic domain: {domain}", domain, NoText), Academic)
        ELSE IF is_excluded_domain(self, domain)
        THEN LeadResult(FALSE, Fmt("Excluded domain: {domain}", domain, NoText), Excluded_Domain)
        ELSE IF is_freemail_domain(self, domain)
        THEN LeadResult(TRUE, Fmt("Freemail provider: {domain}", domain, NoText), Freemail)
        ELSE LeadResult(TRUE, Fmt("", NoText, NoText), Valid)

validate_lead(self, company, country, email) ==
    LET domain == lead_domain(email)
    IN  IF is_blacklisted_country(self, country)
        THEN LeadResult(FALSE, Fmt("Blacklisted country: {country}", country, NoText), Country)
        ELSE IF is_direct_account(self, company)
        THEN LeadResult(FALSE, Fmt("Direct account: {company}", company, NoText), Direct_Account)
        ELSE IF is_excluded_domain(self, domain)
        THEN LeadResult(FALSE, Fmt("Excluded domain: {domain}", domain, NoText), Excluded_Domain)
        ELSE IF is_academic_domain(self, domain)
        THEN LeadResult(FALSE, Fmt("Academic domain: {domain}", domain, NoText), Academic)
        ELSE IF is_freemail_domain(self, domain)
        THEN LeadResult(TRUE, Fmt("Freemail provider: {domain}", domain, NoText), Freemail)
        ELSE LeadResult(TRUE, Fmt("", NoText, NoText), Valid)

\* A reference file as _read_file and the loaders see it: found says that
\* <base_name>.csv or .xlsx could be read, has_option_values and
\* has_option_name that the column is there; each row holds the two cells, and
\* value_na / name_na say that the cell is empty (NaN).
values_of(df) ==
    { Lower(Strip(df.rows[i].Option_Values)) :
        i \in { j \in DOMAIN df.rows : ~df.rows[j].value_na } }

\* _load_simple: the set after the call.
load_simple(df, target_set) ==
    IF ~df.found THEN target_set
    ELSE IF ~df.has_option_values THEN target_set
    ELSE target_set \cup values_of(df)

\* name_map[dom] = name
PutName(name_map, dom, name) ==
    [ k \in DOMAIN name_map \cup { dom } |-> IF k = dom THEN name ELSE name_map[k] ]

\* Lines 95-99: str() of an empty cell is "nan".
RECURSIVE load_names(_, _)
load_names(rows, name_map) ==
    IF rows = << >> THEN name_map
    ELSE LET row == Head(rows)
             dom == Lower(Strip(row.Option_Values))
             name == Strip(IF row.name_na THEN <<"n","a","n">> ELSE row.Option_Name)
         IN  load_names(Tail(rows),
                        IF ~row.value_na /\ dom # << >> /\ name # << >>
                        THEN PutName(name_map, dom, name) ELSE name_map)

\* _load_domains: the set and the name map after the call.
load_domains(df, target_set, name_map) ==
    IF ~df.found THEN << target_set, name_map >>
    ELSE IF ~df.has_option_values THEN << target_set, name_map >>
    ELSE << target_set \cup values_of(df),
            IF df.has_option_name THEN load_names(df.rows, name_map) ELSE name_map >>

\* load_all on the loader self, reading the files of data_folder.
load_all(self, data_folder) ==
    LET academic == load_domains(data_folder.academic_domains, self.academic_domains,
                                 self.academic_domain_names)
    IN  [ academic_domains      |-> academic[1],
          academic_domain_names |-> academic[2],
          excluded_domains      |-> load_simple(data_folder.excluded_domains, self.excluded_domains),
          direct_accounts       |-> load_simple(data_folder.direct_accounts, self.direct_accounts),
          blacklisted_countries |->
              load_simple(data_folder.blacklisted_countries, self.blacklisted_countries),
          freemail_domains      |-> load_simple(data_folder.freemail_domains, self.freemail_domains) ]

\* The sets of __init__ before load_all.
EmptyLoader ==
    [ academic_domains |-> { }, academic_domain_names |-> << >>, excluded_domains |-> { },
      direct_accounts |-> { }, blacklisted_countries |-> { }, freemail_domains |-> { } ]

\* ValidationDataLoader(data_folder): fresh sets, then load_all.
ValidationDataLoader(data_folder) == load_all(EmptyLoader, data_folder)

\* --------------------------------------------------- domain_validator.py

DomainValidator_FREE_MAILERS ==
    { <<"g","m","a","i","l",".","c","o","m">>, <<"y","a","h","o","o",".","c","o","m">>,
      <<"o","u","t","l","o","o","k",".","c","o","m">>,
      <<"h","o","t","m","a","i","l",".","c","o","m">>, <<"l","i","v","e",".","c","o","m">>,
      <<"a","o","l",".","c","o","m">>, <<"i","c","l","o","u","d",".","c","o","m">>,
      <<"m","a","i","l",".","c","o","m">>, <<"p","r","o","t","o","n",".","m","e">>,
      <<"p","r","o","t","o","n","m","a","i","l",".","c","o","m">>,
      <<"g","m","x",".","c","o","m">>, <<"g","m","x",".","d","e">>,
      <<"w","e","b",".","d","e">>, <<"y","a","n","d","e","x",".","c","o","m">>,
      <<"z","o","h","o",".","c","o","m">>, <<"q","q",".","c","o","m">>,
      <<"m","a","i","l",".","r","u">>, <<"1","6","3",".","c","o","m">>,
      <<"1","2","6",".","c","o","m">>, <<"s","i","n","a",".","c","o","m">>,
      <<"s","o","h","u",".","c","o","m">> }

DomainValidator_extract_domain(email) ==
    LET e   == Strip(email)
        ats == { i \in DOMAIN e : e[i] = "@" }
    IN  IF email = << >> \/ ats = { } THEN << >>
        ELSE LET last == CHOOSE i \in ats : \A j \in ats : j <= i
                 rest == SubSeq(e, last + 1, Len(e))
             IN  IF rest # << >> /\ \A k \in DOMAIN rest : IsDomainChar(rest[k])
                 THEN Lower(rest) ELSE << >>

\* The suffixes of normalize_name, in the order it removes them.
COMPANY_SUFFIXES ==
    << <<"g","m","b","h">>, <<"a","g">>, <<"s","e">>, <<"l","t","d">>,
       <<"l","i","m","i","t","e","d">>, <<"i","n","c">>, <<"c","o","r","p">>,
       <<"c","o","r","p","o","r","a","t","i","o","n">>, <<"l","l","c">>, <<"p","l","c">>,
       <<"s","a">>, <<"s","r","l">>, <<"b","v">>, <<"n","v">>, <<"k","g">>, <<"o","h","g">>,
       <<"g","b","r">>, <<"c","o">>, <<"c","o","m","p","a","n","y">>, <<"g","r","o","u","p">>,
       <<"h","o","l","d","i","n","g">>, <<"h","o","l","d","i","n","g","s">>,
       <<"i","n","t","e","r","n","a","t","i","o","n","a","l">> >>

\* re.sub(rf'\b{suffix}\b', '', text), scanning from position i: an occurrence
\* between two word boundaries is dropped, every other character is kept.
RECURSIVE RemoveWholeWord(_, _, _)
RemoveWholeWord(text, suffix, i) ==
    IF i > Len(text) THEN << >>
    ELSE IF /\ i + Len(suffix) - 1 <= Len(text)
            /\ SubSeq(text, i, i + Len(suffix) - 1) = suffix
            /\ (i = 1 \/ ~IsWordChar(text[i - 1]))
            /\ (i + Len(suffix) - 1 = Len(text) \/ ~IsWordChar(text[i + Len(suffix)]))
         THEN RemoveWholeWord(text, suffix, i + Len(suffix))
         ELSE << text[i] >> \o RemoveWholeWord(text, suffix, i + 1)

\* The loop over the suffixes (lines 40-42).
RECURSIVE RemoveSuffixes(_, _)
RemoveSuffixes(text, suffixes) ==
    IF suffixes = << >> THEN text
    ELSE RemoveSuffixes(RemoveWholeWord(text, Head(suffixes), 1), Tail(suffixes))

\* re.sub(r'[^a-z0-9]+', '', text)
KeepLowerAlnum(text) == SelectSeq(text, IsLowerAlnum)

normalize_name(text) ==
    IF text = << >> THEN << >>
    ELSE Strip(KeepLowerAlnum(RemoveSuffixes(Lower(text), COMPANY_SUFFIXES)))

COMMON_SUBDOMAINS ==
    { <<"m","a","i","l">>, <<"e","m","a","i","l">>, <<"w","e","b","m","a","i","l">>,
       <<"s","m","t","p">>, <<"p","o","p">>, <<"i","m","a","p">>, <<"w","w","w">> }

extract_main_domain(domain) ==
    IF domain = << >> THEN << >>
    ELSE LET split == SplitOn(domain, ".")
             parts == IF Len(split) >= 2 /\ split[1] \in COMMON_SUBDOMAINS
                      THEN Tail(split) ELSE split
             n     == Len(parts)
         IN  IF n >= 2
             THEN IF n >= 3 /\ Len(parts[n - 1]) <= 3 THEN parts[n - 2] ELSE parts[n - 1]
             ELSE parts[1]

DomainValidator_is_free_mailer(domain) == Lower(domain) \in DomainValidator_FREE_MAILERS

\* What socket.gethostbyname does for a domain is the resolver's answer, not
\* the program's: it resolves, raises socket.gaierror or raises something else.
DnsOutcomes == { "resolved", "gaierror", "other error" }

\* check_domain_accessibility that takes every failed lookup for not accessible.
check_domain_accessibility_any_error(domain, dns) ==
    IF domain = << >> THEN FALSE ELSE dns = "resolved"

check_domain_accessibility(domain, dns) ==
    IF domain = << >> THEN FALSE ELSE dns # "gaierror"

\* A similarity score is the fraction <<numerator, denominator>>.
Score(n, d) == << n, d >>

ScoreAtLeast(score, n, d) == score[1] * d >= n * score[2]

\* calculate_similarity dividing by the shorter length.
calculate_similarity_by_shorter(str1, str2) ==
    IF str1 = << >> \/ str2 = << >> THEN Score(0, 1)
    ELSE IF str1 = str2 THEN Score(1, 1)
    ELSE IF Contains(str2, str1) \/ Contains(str1, str2) THEN Score(4, 5)
    ELSE LET min_len == IF Len(str1) <= Len(str2) THEN Len(str1) ELSE Len(str2)
             matches == Cardinality({ i \in 1 .. min_len : str1[i] = str2[i] })
         IN  Score(matches, min_len)

calculate_similarity(str1, str2) ==
    IF str1 = << >> \/ str2 = << >> THEN Score(0, 1)
    ELSE IF str1 = str2 THEN Score(1, 1)
    ELSE IF Contains(str2, str1) \/ Contains(str1, str2) THEN Score(4, 5)
    ELSE LET min_len == IF Len(str1) <= Len(str2) THEN Len(str1) ELSE Len(str2)
             max_len == IF Len(str1) >= Len(str2) THEN Len(str1) ELSE Len(str2)
             matches == Cardinality({ i \in 1 .. min_len : str1[i] = str2[i] })
         IN  Score(matches, max_len)

DomainResult(status, details, confidence) ==
    [ status |-> status, details |-> details, confidence |-> confidence ]

\* The comparison of validate_domain with the medium band starting above 0.5.
similarity_verdict_strict_medium(company, domain, dns) ==
    LET similarity == calculate_similarity(normalize_name(company),
                                           normalize_name(extract_main_domain(domain)))
        is_accessible == check_domain_accessibility(domain, dns)
    IN  IF ScoreAtLeast(similarity, 4, 5)
        THEN IF is_accessible
             THEN DomainResult("Valid Company Domain",
                      Fmt("Domain matches company: {company} -> {domain}", company, domain), "high")
             ELSE DomainResult("Matching Domain - Not Accessible",
                      Fmt("Domain matches but not accessible: {domain}", domain, NoText), "medium")
        ELSE IF ScoreAtLeast(similarity, 1, 2) /\ similarity[1] * 2 # similarity[2]
        THEN DomainResult("Possible Domain Match",
                 Fmt(IF is_accessible
                     THEN "Partial match: {company} ~ {domain} (accessibility: yes)"
                     ELSE "Partial match: {company} ~ {domain} (accessibility: no)",
                     company, domain), "medium")
        ELSE DomainResult("Domain Mismatch",
                 Fmt(IF is_accessible
                     THEN "Company and domain don't match: {company} != {domain} (domain accessible: yes)"
                     ELSE "Company and domain don't match: {company} != {domain} (domain accessible: no)",
                     company, domain), "high")

\* The comparison of validate_domain (lines 162-206): both names normalized,
\* their similarity, and the verdict by its band and the domain's accessibility.
\* The details keep the source's wording with ->, ~ and != for its arrow signs.
similarity_verdict(company, domain, dns) ==
    LET company_normalized == normalize_name(company)
        domain_main == extract_main_domain(domain)
        domain_normalized == normalize_name(domain_main)
        similarity == calculate_similarity(company_normalized, domain_normalized)
        is_accessible == check_domain_accessibility(domain, dns)
    IN  IF ScoreAtLeast(similarity, 4, 5)
        THEN IF is_accessible
             THEN DomainResult("Valid Company Domain",
                      Fmt("Domain matches company: {company} -> {domain}", company, domain), "high")
             ELSE DomainResult("Matching Domain - Not Accessible",
                      Fmt("Domain matches but not accessible: {domain}", domain, NoText), "medium")
        ELSE IF ScoreAtLeast(similarity, 1, 2)
        THEN DomainResult("Possible Domain Match",
                 Fmt(IF is_accessible
                     THEN "Partial match: {company} ~ {domain} (accessibility: yes)"
                     ELSE "Partial match: {company} ~ {domain} (accessibility: no)",
                     company, domain), "medium")
        ELSE DomainResult("Domain Mismatch",
                 Fmt(IF is_accessible
                     THEN "Company and domain don't match: {company} != {domain} (domain accessible: yes)"
                     ELSE "Company and domain don't match: {company} != {domain} (domain accessible: no)",
                     company, domain), "high")

\* validate_domain with the company test before the domain test.
validate_domain_company_first(company, email, dns) ==
    LET domain == DomainValidator_extract_domain(email)
    IN  IF company = << >>
        THEN DomainResult("No Company Name", Fmt("Company name is empty", NoText, NoText), "high")
        ELSE IF domain = << >>
        THEN DomainResult("No Email Domain",
                 Fmt("Email address is empty or invalid", NoText, NoText), "high")
        ELSE IF DomainValidator_is_free_mailer(domain)
        THEN DomainResult("Free Mailer",
                 Fmt("Using free email provider: {domain}", domain, NoText), "high")
        ELSE similarity_verdict(company, domain, dns)

\* validate_domain without the test for an empty domain.
validate_domain_no_domain_test(company, email, dns) ==
    LET domain == DomainValidator_extract_domain(email)
    IN  IF company = << >>
        THEN DomainResult("No Company Name", Fmt("Company name is empty", NoText, NoText), "high")
        ELSE IF DomainValidator_is_free_mailer(domain)
        THEN DomainResult("Free Mailer",
                 Fmt("Using free email provider: {domain}", domain, NoText), "high")
        ELSE similarity_verdict(company, domain, dns)

\* dns is the resolver's answer, should check_domain_accessibility ask for it.
validate_domain(company, email, dns) ==
    LET domain == DomainValidator_extract_domain(email)
    IN  IF domain = << >>
        THEN DomainResult("No Email Domain",
                 Fmt("Email address is empty or invalid", NoText, NoText), "high")
        ELSE IF company = << >>
        THEN DomainResult("No Company Name", Fmt("Company name is empty", NoText, NoText), "high")
        ELSE IF DomainValidator_is_free_mailer(domain)
        THEN DomainResult("Free Mailer",
                 Fmt("Using free email provider: {domain}", domain, NoText), "high")
        ELSE similarity_verdict(company, domain, dns)

\* ------------------------------------------------------------ parser.py

University_Contact == <<"U","n","i","v","e","r","s","i","t","y"," ","C","o","n","t","a","c","t">>
Not_Started        == <<"N","o","t"," ","S","t","a","r","t","e","d">>

EmptyText == Fmt("", NoText, NoText)

CONTACT_SALES_PATTERNS ==
    { <<"c","o","n","t","a","c","t","_","s","a","l","e","s","_","f","o","r","m","s">>,
      <<"c","o","n","t","a","c","t"," ","s","a","l","e","s"," ","f","o","r","m","s">>,
      <<"c","o","n","t","a","c","t","_","s","a","l","e","s","_","f","o","r","m">>,
      <<"c","o","n","t","a","c","t"," ","s","a","l","e","s"," ","f","o","r","m">>,
      <<"c","o","n","t","a","c","t","s","a","l","e","s","f","o","r","m","s">>,
      <<"c","o","n","t","a","c","t","s","a","l","e","s","f","o","r","m">> }

check_contact_sales_form(triggering_activities) ==
    IF triggering_activities = << >> THEN "No"
    ELSE IF \E p \in CONTACT_SALES_PATTERNS : Contains(Lower(triggering_activities), p)
         THEN "Yes" ELSE "No"

\* The row of parse_email when the reference-list checks are done (lines 80-113).
\* data is what _parse_html and _parse_text extracted, with the item's Subject.
\* Values read from the email are texts; values the program only assigns from
\* its own literals and never inspects by character are strings.
validated_row(self, data) ==
    LET row == [ Subject                        |-> data.Subject,
                 Company                        |-> data.Company,
                 Country                        |-> data.Country,
                 Email_Address                  |-> data.Email_Address,
                 Lead_Triggering_Activities     |-> data.Lead_Triggering_Activities,
                 Account_Type                   |-> data.Account_Type,
                 Potential_Distribution_Partner |-> data.Potential_Distribution_Partner,
                 Has_Contact_Sales_Form         |->
                     check_contact_sales_form(data.Lead_Triggering_Activities),
                 Status                         |-> data.Status,
                 Action_Taken                   |-> EmptyText,
                 Validation_Status              |-> "",
                 Validation_Reason              |-> EmptyText,
                 Company_Domain_Validation      |-> "",
                 Take_Action                    |-> "",
                 Invalid_Company_Reason         |-> "",
                 Reject_Reason                  |-> "",
                 Move_to_Folder                 |-> "",
                 Sold_to_Party_Name             |-> << >> ]
        validation_result ==
            validate_lead(self, data.Company, data.Country, data.Email_Address)
    IN  IF ~validation_result.is_valid
        THEN [ row EXCEPT !.Status = validation_result.validation_type,
                          !.Action_Taken = validation_result.reason,
                          !.Validation_Status = "Invalid",
                          !.Validation_Reason = validation_result.reason ]
        ELSE [ row EXCEPT !.Validation_Status = "Valid",
                          !.Validation_Reason = validation_result.reason ]

\* The detector without its guard: run for every row.
detector_runs_always(row) == TRUE

\* Line 116: the detector is asked only for a row whose Status is still empty.
detector_runs(row) == row.Status = << >>

parse_email(self, data) ==
    LET row == validated_row(self, data)
        university_result == is_university(row.Company, row.Country, row.Email_Address)
        detected ==
            IF detector_runs(row) /\ university_result.is_university
            THEN [ row EXCEPT !.Status = University_Contact,
                              !.Action_Taken =
                                  Fmt("Identified as university - " \o university_result.reason.fmt,
                                      university_result.reason.a, university_result.reason.b) ]
            ELSE row
    IN  IF detected.Status = << >> THEN [ detected EXCEPT !.Status = Not_Started ] ELSE detected

\* ------------------------------------------------------- email_mover.py

Completed == <<"C","o","m","p","l","e","t","e","d">>
Failed    == <<"F","a","i","l","e","d">>

\* str.upper() on one character ("ß" becomes "SS").
UpperChar(c) ==
    IF IsLowerAscii(c) THEN << UpperLetters[IndexOf(LowerLetters, c)] >>
    ELSE IF c \in Range(UmlautLower) THEN << UmlautUpper[IndexOf(UmlautLower, c)] >>
    ELSE IF c \in Range(AccentLower) THEN << AccentUpper[IndexOf(AccentLower, c)] >>
    ELSE IF c = "ß" THEN << "S", "S" >>
    ELSE << c >>

Upper(s) == Flatten([ i \in DOMAIN s |-> UpperChar(s[i]) ])

\* Python's None where a folder name is expected.
None == "<None>"

ARROW    == <<"A","R","R","O","W">>
FUTURE   == <<"F","U","T","U","R","E">>
RUTRONIK == <<"R","U","T","R","O","N","I","K">>
AVNET    == <<"A","V","N","E","T">>

\* determine_target_folder without the AVNET branch (lines 180-181).
determine_target_folder_moves_avnet(row) ==
    LET has_contact_form == row.Has_Contact_Sales_Form
        potential_partner == Strip(row.Potential_Distribution_Partner)
        partner_upper == Upper(potential_partner)
    IN  IF has_contact_form # "No" \/ potential_partner = << >> \/ potential_partner = << "?" >>
        THEN << None, Fmt("Skipped", NoText, NoText) >>
        ELSE IF Contains(partner_upper, ARROW)
        THEN << "ARROW", Fmt("Moved to Arrow folder - Partner: {potential_partner}", potential_partner, NoText) >>
        ELSE IF Contains(partner_upper, FUTURE)
        THEN << "FUTURE", Fmt("Moved to Future folder - Partner: {potential_partner}", potential_partner, NoText) >>
        ELSE IF Contains(partner_upper, RUTRONIK)
        THEN << "RUTRONIK", Fmt("Moved to Rutronik folder - Partner: {potential_partner}", potential_partner, NoText) >>
        ELSE << "OTHER DISTRIBUTION PARTNERS",
                Fmt("Moved to Other Distribution Partners folder - Partner: {potential_partner}",
                    potential_partner, NoText) >>

\* Lines 153-186. The contact form column holds 'Yes' or 'No'
\* (_check_contact_sales_form), which strip() leaves as they are.
determine_target_folder(row) ==
    LET has_contact_form == row.Has_Contact_Sales_Form
        potential_partner == Strip(row.Potential_Distribution_Partner)
        partner_upper == Upper(potential_partner)
    IN  IF has_contact_form # "No"
        THEN << None, Fmt("Skipped - Has Contact Sales Form: " \o has_contact_form, NoText, NoText) >>
        ELSE IF potential_partner = << >> \/ potential_partner = << "?" >>
        THEN << None, Fmt("Skipped - No distribution partner identified", NoText, NoText) >>
        ELSE IF Contains(partner_upper, ARROW)
        THEN << "ARROW", Fmt("Moved to Arrow folder - Partner: {potential_partner}", potential_partner, NoText) >>
        ELSE IF Contains(partner_upper, FUTURE)
        THEN << "FUTURE", Fmt("Moved to Future folder - Partner: {potential_partner}", potential_partner, NoText) >>
        ELSE IF Contains(partner_upper, RUTRONIK)
        THEN << "RUTRONIK", Fmt("Moved to Rutronik folder - Partner: {potential_partner}", potential_partner, NoText) >>
        ELSE IF Contains(partner_upper, AVNET)
        THEN << None, Fmt("Skipped - AVNET partner", NoText, NoText) >>
        ELSE << "OTHER DISTRIBUTION PARTNERS",
                Fmt("Moved to Other Distribution Partners folder - Partner: {potential_partner}",
                    potential_partner, NoText) >>

\* The keys of folder_map (lines 213-218).
FOLDER_MAP_KEYS == { "ARROW", "FUTURE", "RUTRONIK", "OTHER DISTRIBUTION PARTNERS" }

\* process_one leaving alone every row that already has a Status.
process_one_skips_classified(i, row_data, subfolders, move_ok) ==
    LET target == determine_target_folder(row_data)
        target_name == IF row_data.Status = << >> THEN target[1] ELSE None
    IN  IF target_name = None \/ target_name \notin (subfolders \cap FOLDER_MAP_KEYS)
        THEN [ entry |-> << Not_Started, target[2] >>, log |-> << >> ]
        ELSE [ entry |-> << IF move_ok THEN Completed ELSE Failed, target[2] >>,
               log |-> << [ index |-> i, subject |-> row_data.Subject,
                            to_folder |-> target_name,
                            status |-> IF move_ok THEN "success" ELSE "failed" ] >> ]

\* One pass of the loop of process_emails (lines 237-278) for the row at index i:
\* its status_map entry and, when Move was called, its move_log entry.
\* move_ok tells whether Outlook's Move succeeds.
process_one(i, row_data, subfolders, move_ok) ==
    LET target == determine_target_folder(row_data)
        target_name == target[1]
        action_desc == target[2]
    IN  IF target_name = None
        THEN [ entry |-> << Not_Started, action_desc >>, log |-> << >> ]
        ELSE IF target_name \notin (subfolders \cap FOLDER_MAP_KEYS)
        THEN [ entry |-> << Failed, Fmt("Failed - Target folder '" \o target_name \o "' not found",
                                        NoText, NoText) >>,
               log |-> << >> ]
        ELSE IF move_ok
        THEN [ entry |-> << Completed, action_desc >>,
               log |-> << [ index |-> i, subject |-> row_data.Subject,
                            to_folder |-> target_name, status |-> "success" ] >> ]
        ELSE [ entry |-> << Failed, Fmt("Failed - Could not move to " \o target_name, NoText, NoText) >>,
               log |-> << [ index |-> i, subject |-> row_data.Subject,
                            to_folder |-> target_name, status |-> "failed" ] >> ]

\* process_emails: subfolders is the set of keys get_mql_subfolders found.
process_emails(parsed_data, subfolders, move_ok) ==
    IF subfolders = { }
    THEN [ status_map |-> [ i \in DOMAIN parsed_data |->
                              << Not_Started,
                                 Fmt("Email moving disabled - No MQL subfolders found", NoText, NoText) >> ],
           move_log |-> << >> ]
    ELSE LET one == [ i \in DOMAIN parsed_data |->
                        process_one(i, parsed_data[i], subfolders, move_ok[i]) ]
         IN  [ status_map |-> [ i \in DOMAIN parsed_data |-> one[i].entry ],
               move_log   |-> Flatten([ i \in DOMAIN parsed_data |-> one[i].log ]) ]

\* --------------------------------------------------------------- main.py

\* The protected list without Academic and Freemail, as an earlier version had it.
protected_statuses_narrow ==
    { University_Contact, Completed, Excluded_Domain, Direct_Account, Country }

protected_statuses ==
    { University_Contact, Completed, Academic, Excluded_Domain, Direct_Account, Country, Freemail }

\* Lines 185-201: the status_map of the move stage. move_emails is the user's
\* answer, subfolders what get_mql_subfolders found.
move_stage(parsed, move_emails, subfolders, move_ok) ==
    IF move_emails
    THEN IF subfolders # { }
         THEN process_emails(parsed, subfolders, move_ok)
         ELSE [ status_map |-> [ i \in DOMAIN parsed |->
                                   << Not_Started, Fmt("Email moving was skipped", NoText, NoText) >> ],
                move_log |-> << >> ]
    ELSE [ status_map |-> [ i \in DOMAIN parsed |->
                              << Not_Started, Fmt("Email moving was not requested", NoText, NoText) >> ],
           move_log |-> << >> ]

\* Lines 207-216 for one row.
update_row(row, i, map) ==
    LET current_status == row.Status
    IN  IF current_status \notin protected_statuses
        THEN IF i \in DOMAIN map
             THEN [ row EXCEPT !.Status = map[i][1], !.Action_Taken = map[i][2] ]
             ELSE IF current_status = << >>
             THEN [ row EXCEPT !.Status = Not_Started,
                               !.Action_Taken = Fmt("No action taken", NoText, NoText) ]
             ELSE row
        ELSE row

\* df[df["Subject"].str.contains(word, case=False, na=False)]: the rows, under
\* their index, whose Subject holds the word in any letter case.
subject_rows(df, word) ==
    LET keep == { i \in DOMAIN df : Contains(Lower(df[i].Subject), word) }
    IN  [ i \in keep |-> df[i] ]

ACADEMIC_STATUSES ==
    { <<"a","c","a","d","e","m","i","c">>,
      <<"u","n","i","v","e","r","s","i","t","y"," ","c","o","n","t","a","c","t">> }

IsAcademicStatus(row) == Lower(Strip(row.Status)) \in ACADEMIC_STATUSES

prefill_academic_university(df_validation, df_review) ==
    [ validation |->
          [ i \in DOMAIN df_validation |->
              IF IsAcademicStatus(df_validation[i])
              THEN [ df_validation[i] EXCEPT !.Take_Action = "Invalid Company",
                                             !.Invalid_Company_Reason = "University Contact",
                                             !.Move_to_Folder = "Rejected Marketing" ]
              ELSE df_validation[i] ],
      review |->
          [ i \in DOMAIN df_review |->
              IF IsAcademicStatus(df_review[i])
              THEN [ df_review[i] EXCEPT !.Take_Action = "Reject",
                                         !.Reject_Reason = "University Contact",
                                         !.Move_to_Folder = "Rejected Marketing" ]
              ELSE df_review[i] ] ]

\* The company names enrich_with_sap_sold_to looks up (lines 94-97).
sap_companies(df_validation, df_review) ==
    ( { Strip(df_validation[i].Company) : i \in DOMAIN df_validation }
          \cup { Strip(df_review[i].Company) : i \in DOMAIN df_review } ) \ { << >> }

\* Lines 119-123: the looked-up names written to both sheets.
apply_sold_to(df, result_map) ==
    [ i \in DOMAIN df |->
        [ df[i] EXCEPT !.Sold_to_Party_Name =
            IF Strip(df[i].Company) \in DOMAIN result_map
            THEN result_map[Strip(df[i].Company)] ELSE << >> ] ]

Mass_Market == <<"M","a","s","s"," ","M","a","r","k","e","t">>

\* Lines 246-254 for one row of the Review sheet.
mark_mass_market(row) ==
    IF /\ Contains(Lower(row.Account_Type), <<"m","a","s","s"," ","m","a","r","k","e","t">>)
       /\ row.Status \notin protected_statuses
    THEN [ row EXCEPT !.Status = Mass_Market,
                      !.Action_Taken = Fmt("Identified as Mass Market account", NoText, NoText) ]
    ELSE row

\* ----------------------------------------------------------------- state

VARIABLES
    pc,          \* where the run or the call stands
    loader,      \* ValidationDataLoader: the five reference sets
    emails,      \* the fetched email items, as their parsed field data
    rows,        \* rows of main(): one dict per email
    status_map,  \* index -> (status, action) of the move stage
    move_log,    \* EmailMover.move_log
    called,      \* indexes of the rows parse_email passed to is_university
    sheets,      \* df_validation and df_review, each a list of rows
    args,        \* arguments of a classifier call
    ret,         \* what the call returned
    earlier,     \* the call before this one and what it returned
    files,       \* the reference files of data_folder: base name -> column of values
    searches,    \* the searches sent to the CRM form, in order
    locals,      \* local variables of the function that is running
    _cache,      \* SAPCRMLookup._cache
    status_updates,  \* WebFormAutomation.status_updates[sheet_name]
    driver       \* what the browser was made to do, in order

vars ==
    << pc, loader, emails, rows, status_map, move_log, called, sheets, args, ret, earlier, files,
       searches, locals, _cache, status_updates, driver >>

NoResult == [ none |-> TRUE ]

NoSheets == [ validation |-> << >>, review |-> << >> ]

\* The reference files are not part of the run or call at hand.
NoFiles == << >>

\* No CRM lookup is part of the run or call at hand.
\* No replay of the web forms is in progress.
NoReplay == status_updates = << >> /\ driver = << >>

NoLookup == searches = << >> /\ locals = NoResult /\ _cache = << >>

\* No main() run is in progress: the state around a single classifier call.
NoRun ==
    /\ emails = << >>
    /\ rows = << >>
    /\ status_map = << >>
    /\ move_log = << >>
    /\ called = { }
    /\ sheets = NoSheets
    /\ earlier = NoResult
    /\ files = NoFiles
    /\ NoLookup /\ NoReplay

\* ------------------------------------------- calls of is_university

DetectorCompanies ==
    { << >>,
      <<"T","e","c","h","n","i","c","a","l"," ","U","n","i","v","e","r","s","i","t","y"," ","o","f"," ","M","u","n","i","c","h">>,
      <<"A","n","k","a","r","a"," ","U","n","i","v","e","r","s","i","t","y">>,
      <<"U","n","i","v","e","r","s","i","t","y"," ","A","n","k","a","r","a">>,
      <<"B","o","s","c","h"," ","U","n","i","v","e","r","s","i","t","y">>,
      <<"S","i","e","m","e","n","s"," ","A","G">>,
      <<"A","c","m","e">>,
      <<"D","i","g","i","t","a","l","i","s"," ","C","o","l","l","e","g","e">>,
      <<"G","l","o","b","a","l"," ","C","o","l","l","e","g","e">>,
      <<"E","x","e","t","e","r"," ","C","o","l","l","e","g","e">>,
      <<"H","o","c","h","s","c","h","u","l","e"," ","M","ü","n","c","h","e","n">>,
      <<"A","n","k","a","r","a"," ","U","n","i","v","e","r","s","i","t","y"," ","H","o","s","p","i","t","a","l">>,
      <<"I","s","t","a","n","b","u","l"," ","T","e","c","h","n","i","c","a","l"," ","U","n","i","v","e","r","s","i","t","y">> }

DetectorCountries ==
    { << >>, <<"G","e","r","m","a","n","y">>, <<"T","u","r","k","e","y">>,
      <<"A","u","s","t","r","i","a">> }

DetectorEmails ==
    { << >>, <<"x","@","t","u","m",".","d","e">>, <<"x","@","g","m","a","i","l",".","c","o","m">>,
      <<"x","@","m","i","t",".","e","d","u">>,
      <<"x","@","s","c","h","e","d","u","l","e",".","c","o","m">>,
      <<"x","@","a","c","m","e",".","c","o","m">>,
      <<"j","@","c","a","m",".","a","c",".","u","k">>,
      <<"x","@","c","a","m","p","u","s",".","g","m","x",".","d","e">> }

InitDetector ==
    /\ pc = "call"
    /\ args \in [ company : DetectorCompanies, country : DetectorCountries,
                  email : DetectorEmails ]
    /\ ret = NoResult
    /\ loader = EmptyLoader
    /\ NoRun

CallIsUniversity ==
    /\ pc = "call"
    /\ ret' = is_university(args.company, args.country, args.email)
    /\ pc' = "returned"
    /\ UNCHANGED << loader, emails, rows, status_map, move_log, called, sheets, args, earlier, files, searches, locals, _cache, status_updates, driver >>

NextDetector == CallIsUniversity

SpecDetector == InitDetector /\ [][NextDetector]_vars

\* ------------------------------------------- calls of validate_lead

\* Reference data as load_all leaves it: trimmed, lowercased values.
ListedLoader ==
    [ academic_domains      |-> { <<"m","i","t",".","e","d","u">>, <<"b","o","t","h",".","e","d","u">> },
      academic_domain_names |-> << >>,
      excluded_domains      |-> { <<"c","o","m","p","e","t","i","t","o","r",".","c","o","m">>,
                                  <<"b","o","t","h",".","e","d","u">> },
      direct_accounts       |-> { <<"b","o","s","c","h">> },
      blacklisted_countries |-> { <<"i","r","a","n">> },
      freemail_domains      |-> { <<"g","m","a","i","l",".","c","o","m">>,
                                  <<"a","l","u","m","n","i",".","m","i","t",".","e","d","u">> } ]

LeadLoaders == { ListedLoader, EmptyLoader }

LeadCompanies ==
    { << >>, <<"A","c","m","e">>, <<"B","o","s","c","h">>, <<" ","B","O","S","C","H"," ">> }

LeadCountries == { << >>, <<"I","r","a","n">>, <<"G","e","r","m","a","n","y">> }

LeadEmails ==
    { << >>, <<"n","o","-","a","t","-","s","i","g","n">>,
      <<"x","@","a","c","m","e",".","c","o","m">>,
      <<"x","@","b","o","t","h",".","e","d","u">>,
      <<"x","@","M","I","T",".","e","d","u">>,
      <<"x","@","a","l","u","m","n","i",".","m","i","t",".","e","d","u">>,
      <<"x","@","n","o","t","m","i","t",".","e","d","u">>,
      <<"x","@","m","a","i","l",".","c","o","m","p","e","t","i","t","o","r",".","c","o","m">>,
      <<"x","@","g","m","a","i","l",".","c","o","m">> }

InitLead ==
    /\ pc = "call"
    /\ loader \in LeadLoaders
    /\ args \in [ company : LeadCompanies, country : LeadCountries, email : LeadEmails ]
    /\ ret = NoResult
    /\ NoRun

CallValidateLead ==
    /\ pc = "call"
    /\ ret' = validate_lead(loader, args.company, args.country, args.email)
    /\ pc' = "returned"
    /\ UNCHANGED << loader, emails, rows, status_map, move_log, called, sheets, args, earlier, files, searches, locals, _cache, status_updates, driver >>

NextLead == CallValidateLead

SpecLead == InitLead /\ [][NextLead]_vars

\* ------------------------------------------ calls of validate_domain

DomainCompanies ==
    { << >>, <<"A","c","m","e"," ","C","o","r","p">>, <<"A","c","m","e"," ","G","m","b","H">>,
      <<"A","c","m","o">>, <<"A","c","x","y">>, <<"G","m","a","i","l">> }

DomainEmails ==
    { << >>, <<"n","o","-","a","t","-","s","i","g","n">>,
      <<"j","a","n","e","@","a","c","m","e",".","c","o","m">>,
      <<"x","@","g","m","a","i","l",".","c","o","m">>,
      <<"j","a","n","e","@","u","n","r","e","l","a","t","e","d",".","i","o">>,
      <<"x","@","m","a","i","l",".","a","c","m","e",".","c","o",".","u","k">>,
      <<"x","@","c","o","m","p","e","t","i","t","o","r",".","c","o","m">>,
      <<"x","@","a","c","-","m","e",".","d","e">>,
      <<"x","@","a","l","u","m","n","i",".","m","i","t",".","e","d","u">> }

InitDomain ==
    /\ pc = "call"
    /\ loader = ListedLoader
    /\ args \in [ company : DomainCompanies, email : DomainEmails, dns : DnsOutcomes ]
    /\ ret = NoResult
    /\ NoRun

CallValidateDomain ==
    /\ pc = "call"
    /\ ret' = validate_domain(args.company, args.email, args.dns)
    /\ pc' = "returned"
    /\ UNCHANGED << loader, emails, rows, status_map, move_log, called, sheets, args, earlier, files, searches, locals, _cache, status_updates, driver >>

NextDomain == CallValidateDomain

SpecDomain == InitDomain /\ [][NextDomain]_vars

\* ------------------------------------------------------- runs of main()

\* Largest number of emails fetch_emails returns in a run.
MaxEmails == 2

\* The fetched emails: for each, the Subject and the fields _parse_html and
\* _parse_text extract from it (Status is a label of FIELDS, so a body can
\* supply one).
EmailItems ==
    { [ Subject |-> <<"P","r","e","-","M","Q","L"," ","r","e","a","d","y"," ","f","o","r"," ","r","e","v","i","e","w">>,
        Company |-> <<"A","n","k","a","r","a"," ","U","n","i","v","e","r","s","i","t","y">>,
        Country |-> <<"T","u","r","k","e","y">>,
        Email_Address |-> <<"x","@","g","m","a","i","l",".","c","o","m">>,
        Status |-> << >>,
        Account_Type |-> <<"M","a","s","s"," ","M","a","r","k","e","t">>,
        Lead_Triggering_Activities |-> <<"W","e","b","i","n","a","r">>,
        Potential_Distribution_Partner |-> <<"A","r","r","o","w"," ","E","l","e","c","t","r","o","n","i","c","s">> ],
      [ Subject |-> <<"P","r","e","-","M","Q","L"," ","r","e","a","d","y"," ","f","o","r"," ","v","a","l","i","d","a","t","i","o","n">>,
        Company |-> <<"A","c","m","e"," ","C","o","r","p">>,
        Country |-> <<"G","e","r","m","a","n","y">>,
        Email_Address |-> <<"j","a","n","e","@","a","c","m","e",".","c","o","m">>,
        Status |-> << >>,
        Account_Type |-> <<"K","e","y"," ","A","c","c","o","u","n","t">>,
        Lead_Triggering_Activities |-> <<"C","o","n","t","a","c","t","_","S","a","l","e","s","_","F","o","r","m","s">>,
        Potential_Distribution_Partner |-> <<"R","u","t","r","o","n","i","k">> ],
      [ Subject |-> <<"P","r","e","-","M","Q","L"," ","r","e","a","d","y"," ","f","o","r"," ","r","e","v","i","e","w">>,
        Company |-> <<"A","c","m","e">>,
        Country |-> <<"G","e","r","m","a","n","y">>,
        Email_Address |-> <<"x","@","m","i","t",".","e","d","u">>,
        Status |-> << >>,
        Account_Type |-> <<"M","a","s","s"," ","M","a","r","k","e","t">>,
        Lead_Triggering_Activities |-> <<"W","e","b","i","n","a","r">>,
        Potential_Distribution_Partner |-> <<"F","u","t","u","r","e"," ","E","l","e","c","t","r","o","n","i","c","s">> ],
      [ Subject |-> <<"P","r","e","-","M","Q","L"," ","r","e","a","d","y"," ","f","o","r"," ","r","e","v","i","e","w">>,
        Company |-> <<"A","c","m","e">>,
        Country |-> <<"G","e","r","m","a","n","y">>,
        Email_Address |-> <<"x","@","a","c","m","e",".","c","o","m">>,
        Status |-> << >>,
        Account_Type |-> <<"M","a","s","s"," ","M","a","r","k","e","t">>,
        Lead_Triggering_Activities |-> <<"W","e","b","i","n","a","r">>,
        Potential_Distribution_Partner |-> <<"A","v","n","e","t">> ],
      [ Subject |-> <<"P","r","e","-","M","Q","L"," ","r","e","a","d","y"," ","f","o","r"," ","v","a","l","i","d","a","t","i","o","n">>,
        Company |-> <<"B","o","s","c","h">>,
        Country |-> <<"I","r","a","n">>,
        Email_Address |-> <<"x","@","b","o","s","c","h",".","c","o","m">>,
        Status |-> << >>,
        Account_Type |-> <<"K","e","y"," ","A","c","c","o","u","n","t">>,
        Lead_Triggering_Activities |-> << >>,
        Potential_Distribution_Partner |-> <<"?">> ],
      [ Subject |-> <<"F","w","d",":"," ","l","e","a","d">>,
        Company |-> <<"E","x","e","t","e","r"," ","C","o","l","l","e","g","e">>,
        Country |-> << >>,
        Email_Address |-> << >>,
        Status |-> <<"p","e","n","d","i","n","g">>,
        Account_Type |-> << >>,
        Lead_Triggering_Activities |-> <<"W","e","b","i","n","a","r">>,
        Potential_Distribution_Partner |-> <<"D","i","g","i","k","e","y">> ] }

\* Sequences are indexed from 1: index i here is Python's index i - 1.
EmailLists == UNION { [ 1 .. n -> EmailItems ] : n \in 0 .. MaxEmails }

\* What get_mql_subfolders can return: the keys it found.
SubfolderChoices ==
    { { },
      { "ARROW", "FUTURE", "RUTRONIK", "OTHER DISTRIBUTION PARTNERS", "EBV/AVNET" },
      { "FUTURE", "EBV/AVNET" } }

\* What SAPCRMLookup.lookup can return for a company (None is stored as "").
SoldToNames == { << >>, <<"A","C","M","E"," ","S","E">> }

\* enrich_with_sap_sold_to: failed says that the browser session raised, which
\* the function catches and leaves both sheets as they were.
enrich_with_sap_sold_to(df_validation, df_review, failed, result_map) ==
    IF sap_companies(df_validation, df_review) = { } \/ failed
    THEN [ validation |-> df_validation, review |-> df_review ]
    ELSE [ validation |-> apply_sold_to(df_validation, result_map),
           review     |-> apply_sold_to(df_review, result_map) ]

Init ==
    /\ pc = "start"
    /\ loader = ListedLoader
    /\ emails \in EmailLists
    /\ rows = << >>
    /\ status_map = << >>
    /\ move_log = << >>
    /\ called = { }
    /\ sheets = NoSheets
    /\ earlier = NoResult
    /\ files = NoFiles
    /\ NoLookup /\ NoReplay
    /\ args = NoResult
    /\ ret = NoResult

\* Lines 178-180: no matching emails.
NoEmails ==
    /\ pc = "start"
    /\ emails = << >>
    /\ pc' = "done"
    /\ UNCHANGED << loader, emails, rows, status_map, move_log, called, sheets, args, ret, earlier, files, searches, locals, _cache, status_updates, driver >>

\* Line 183.
ParseEmails ==
    /\ pc = "start"
    /\ emails # << >>
    /\ rows' = [ i \in DOMAIN emails |-> parse_email(loader, emails[i]) ]
    /\ called' = { i \in DOMAIN emails : detector_runs(validated_row(loader, emails[i])) }
    /\ pc' = "parsed"
    /\ UNCHANGED << loader, emails, status_map, move_log, sheets, args, ret, earlier, files, searches, locals, _cache, status_updates, driver >>

\* Lines 185-201.
MoveEmails ==
    /\ pc = "parsed"
    /\ \E move_emails \in BOOLEAN, subfolders \in SubfolderChoices,
          move_ok \in [ DOMAIN rows -> BOOLEAN ] :
          LET moved == move_stage(rows, move_emails, subfolders, move_ok)
          IN  /\ status_map' = moved.status_map
              /\ move_log' = moved.move_log
    /\ pc' = "moved"
    /\ UNCHANGED << loader, emails, rows, called, sheets, args, ret, earlier, files, searches, locals, _cache, status_updates, driver >>

\* Lines 203-216.
UpdateStatus ==
    /\ pc = "moved"
    /\ rows' = [ i \in DOMAIN rows |-> update_row(rows[i], i, status_map) ]
    /\ pc' = "updated"
    /\ UNCHANGED << loader, emails, status_map, move_log, called, sheets, args, ret, earlier, files, searches, locals, _cache, status_updates, driver >>

\* Lines 218-233: the domain validation column, then the two sheets.
ValidateAndSplit ==
    /\ pc = "updated"
    /\ \E dns \in [ DOMAIN rows -> DnsOutcomes ] :
          LET df == [ i \in DOMAIN rows |->
                        [ rows[i] EXCEPT !.Company_Domain_Validation =
                            validate_domain(rows[i].Company, rows[i].Email_Address, dns[i]).status ] ]
          IN  /\ rows' = df
              /\ sheets' = [ validation |-> subject_rows(df, <<"v","a","l","i","d","a","t","i","o","n">>),
                             review     |-> subject_rows(df, <<"r","e","v","i","e","w">>) ]
    /\ pc' = "split"
    /\ UNCHANGED << loader, emails, status_map, move_log, called, args, ret, earlier, files, searches, locals, _cache, status_updates, driver >>

\* Lines 235-237.
NoSheetRows ==
    /\ pc = "split"
    /\ DOMAIN sheets.validation = { }
    /\ DOMAIN sheets.review = { }
    /\ pc' = "done"
    /\ UNCHANGED << loader, emails, rows, status_map, move_log, called, sheets, args, ret, earlier, files, searches, locals, _cache, status_updates, driver >>

\* Line 240.
Prefill ==
    /\ pc = "split"
    /\ ~ (DOMAIN sheets.validation = { } /\ DOMAIN sheets.review = { })
    /\ sheets' = prefill_academic_university(sheets.validation, sheets.review)
    /\ pc' = "prefilled"
    /\ UNCHANGED << loader, emails, rows, status_map, move_log, called, args, ret, earlier, files, searches, locals, _cache, status_updates, driver >>

\* Line 243.
EnrichSap ==
    /\ pc = "prefilled"
    /\ \E failed \in BOOLEAN,
          result_map \in [ sap_companies(sheets.validation, sheets.review) -> SoldToNames ] :
          sheets' = enrich_with_sap_sold_to(sheets.validation, sheets.review, failed, result_map)
    /\ pc' = "enriched"
    /\ UNCHANGED << loader, emails, rows, status_map, move_log, called, args, ret, earlier, files, searches, locals, _cache, status_updates, driver >>

\* Lines 245-254, then the save.
MarkMassMarket ==
    /\ pc = "enriched"
    /\ sheets' = [ sheets EXCEPT !.review =
                     [ i \in DOMAIN sheets.review |-> mark_mass_market(sheets.review[i]) ] ]
    /\ pc' = "done"
    /\ UNCHANGED << loader, emails, rows, status_map, move_log, called, args, ret, earlier, files, searches, locals, _cache, status_updates, driver >>

Next ==
    \/ NoEmails
    \/ ParseEmails
    \/ MoveEmails
    \/ UpdateStatus
    \/ ValidateAndSplit
    \/ NoSheetRows
    \/ Prefill
    \/ EnrichSap
    \/ MarkMassMarket

Spec == Init /\ [][Next]_vars

\* ----------------------------------- properties of is_university calls

Returned == pc = "returned"

Rule1 == matches_known_university(args.company, args.country)
Rule2 == is_commercial_company(args.company)
Rule3 ==
    /\ ~is_free_mailer(extract_domain(args.email))
    /\ \/ has_strict_academic_tld(extract_domain(args.email))
       \/ domain_contains_university_keyword(extract_domain(args.email))
Rule4 == contains_core_academic_word(args.company)

Verdict(v, c) == ret.is_university = v /\ ret.confidence = c

TechnicalUniversityOfMunich ==
    [ company |-> <<"T","e","c","h","n","i","c","a","l"," ","U","n","i","v","e","r","s","i","t","y"," ","o","f"," ","M","u","n","i","c","h">>,
      country |-> <<"G","e","r","m","a","n","y">>,
      email   |-> <<"x","@","t","u","m",".","d","e">> ]

\* C5: for Technical University of Munich, Germany, x@tum.de the verdict is
\* academic with confidence medium or high.
C5_MunichIsAcademic ==
    Returned /\ args = TechnicalUniversityOfMunich =>
        ret.is_university /\ ret.confidence \in { "medium", "high" }

\* Every word of the institution is among the words of the company name.
WordsSubset(uni, company) ==
    \A word \in Range(SplitWords(normalize_text(uni))) :
        word \in Range(SplitWords(normalize_text(company)))

\* C6 as stated: a company whose words include every word of a known
\* institution of its country, in any position and order, is academic/high.
C6_WordSubsetInAnyOrder ==
    Returned /\ args.company # << >> /\ args.country # << >> =>
        \A uni \in universities_for(normalize_text(args.country)) :
            WordsSubset(uni, args.company) => Verdict(TRUE, "high")

\* C6 amended: a company whose normalized name contains the institution's
\* normalized name as a contiguous substring, every word of the institution
\* being a whole word of the company name, is academic/high.
C6_ContiguousWordMatch ==
    Returned /\ args.company # << >> /\ args.country # << >> =>
        \A uni \in universities_for(normalize_text(args.country)) :
            /\ Contains(normalize_text(args.company), normalize_text(uni))
            /\ WordsSubset(uni, args.company)
            => Verdict(TRUE, "high")

\* A longer name that holds the institution's name: Ankara University Hospital.
C6_Witness ==
    /\ Returned
    /\ ret.is_university
    /\ \E uni \in universities_for(normalize_text(args.country)) :
           /\ normalize_text(args.company) # normalize_text(uni)
           /\ Contains(normalize_text(args.company), normalize_text(uni))
           /\ WordsSubset(uni, args.company)

\* A token stands alone in a domain when it is one of the domain's labels or
\* hyphen-separated parts.
HasStandaloneToken(domain) ==
    \E token \in STRICT_ACADEMIC_DOMAIN_TOKENS :
        token \in Range(SplitWords(normalize_text(domain)))

\* C7: the domain-token rule fires only for a domain in which a
\* university-indicating token occurs as a standalone token.
C7_TokenRuleNeedsStandaloneToken ==
    Returned /\ ret.reason.fmt = "Domain contains university keyword: {domain}" =>
        HasStandaloneToken(extract_domain(args.email))

\* The name holds a commercial indicator as a word (or as a run of words).
HasIndicatorWord(text) ==
    \E indicator \in COMMERCIAL_INDICATORS :
        Contains(SplitWords(normalize_text(text)), SplitWords(indicator))

\* C8: when rules 1-3 do not match and the name has a core academic keyword,
\* the verdict is not-academic/medium if the name also holds a commercial
\* indicator word and academic/medium otherwise; an indicator that is only
\* part of a longer word does not downgrade.
C8_DowngradeOnlyOnIndicatorWord ==
    Returned /\ ~Rule1 /\ ~Rule2 /\ ~Rule3 /\ Rule4 =>
        IF HasIndicatorWord(args.company)
        THEN Verdict(FALSE, "medium") ELSE Verdict(TRUE, "medium")

\* ----------------------------------- properties of validate_lead calls

\* The five reference-list checks in the order of the claim, each with the
\* validation_type it stands for.
LeadCheck(self, lead, i) ==
    CASE i = 1 -> is_blacklisted_country(self, lead.country)
      [] i = 2 -> is_direct_account(self, lead.company)
      [] i = 3 -> is_excluded_domain(self, lead_domain(lead.email))
      [] i = 4 -> is_academic_domain(self, lead_domain(lead.email))
      [] i = 5 -> is_freemail_domain(self, lead_domain(lead.email))

LeadCheckType == << Country, Direct_Account, Excluded_Domain, Academic, Freemail >>

MatchingChecks(self, lead) == { i \in 1 .. 5 : LeadCheck(self, lead, i) }

\* C2: the validation_type validate_lead returns is the type of the earliest
\* matching check in the order country, direct account, excluded domain,
\* academic domain, freemail domain, and Valid when none matches.
C2_EarliestCheckDecides ==
    Returned =>
        LET m == MatchingChecks(loader, args)
        IN  IF m = { } THEN ret.validation_type = Valid
            ELSE ret.validation_type =
                     LeadCheckType[CHOOSE i \in m : \A j \in m : i <= j]

\* A returned call for a lead on both the excluded and the academic list.
C2_Witness ==
    /\ Returned
    /\ { 3, 4 } \subseteq MatchingChecks(loader, args)
    /\ ret.validation_type = Excluded_Domain

\* ---------------------------------- properties of validate_domain calls

CallDomain == DomainValidator_extract_domain(args.email)

CallScore ==
    calculate_similarity(normalize_name(args.company),
                         normalize_name(extract_main_domain(CallDomain)))

SimilarityStatuses ==
    { "Valid Company Domain", "Matching Domain - Not Accessible", "Possible Domain Match",
      "Domain Mismatch" }

\* C9: validate_domain answers No Email Domain for an empty or unextractable
\* domain, then No Company Name for an empty company, then Free Mailer (high)
\* for a free-mailer domain, and compares names only when none of these applies.
C9_EarlyChecksInOrder ==
    Returned =>
        /\ CallDomain = << >> => ret.status = "No Email Domain"
        /\ CallDomain # << >> /\ args.company = << >> => ret.status = "No Company Name"
        /\ CallDomain # << >> /\ args.company # << >> /\ DomainValidator_is_free_mailer(CallDomain)
               => ret.status = "Free Mailer" /\ ret.confidence = "high"
        /\ ret.status \in SimilarityStatuses =>
               /\ CallDomain # << >>
               /\ args.company # << >>
               /\ ~DomainValidator_is_free_mailer(CallDomain)

\* A call with neither a company nor an email.
C9_Witness ==
    Returned /\ args.company = << >> /\ args.email = << >> /\ ret.status = "No Email Domain"

\* The calls C10 is about: a company, and a domain neither free-mailer nor excluded.
ComparedCall ==
    /\ Returned
    /\ args.company # << >>
    /\ CallDomain # << >>
    /\ ~DomainValidator_is_free_mailer(CallDomain)
    /\ ~is_excluded_domain(loader, CallDomain)

DomainVerdict(status, confidence) == ret.status = status /\ ret.confidence = confidence

RowChecks(i) ==
    MatchingChecks(loader, [ company |-> emails[i].Company, country |-> emails[i].Country,
                             email |-> emails[i].Email_Address ])

C1_ProtectedValues ==
    { <<"U","n","i","v","e","r","s","i","t","y"," ","C","o","n","t","a","c","t">>,
      <<"A","c","a","d","e","m","i","c">>,
      <<"E","x","c","l","u","d","e","d"," ","D","o","m","a","i","n">>,
      <<"D","i","r","e","c","t"," ","A","c","c","o","u","n","t">>,
      <<"C","o","u","n","t","r","y">>,
      <<"C","o","m","p","l","e","t","e","d">>,
      <<"F","r","e","e","m","a","i","l">> }

SheetNames == { "validation", "review" }

\* C1: in every step of a run, a record whose Status is a protected value
\* keeps that Status: in rows, when it is copied to a sheet, and in the sheet.
C1_ProtectedStatusIsKept ==
    [][ /\ \A i \in DOMAIN rows :
              rows[i].Status \in C1_ProtectedValues => rows'[i].Status = rows[i].Status
        /\ \A s \in SheetNames : \A i \in DOMAIN sheets'[s] :
              IF i \in DOMAIN sheets[s]
              THEN sheets[s][i].Status \in C1_ProtectedValues
                       => sheets'[s][i].Status = sheets[s][i].Status
              ELSE rows[i].Status \in C1_ProtectedValues
                       => sheets'[s][i].Status = rows[i].Status ]_vars

\* A finished run with a Review row that is still Academic although its email
\* was moved (status_map says Completed) and its account is Mass Market.
C1_Witness ==
    /\ pc = "done"
    /\ \E i \in DOMAIN sheets.review :
          /\ sheets.review[i].Status = Academic
          /\ status_map[i][1] = Completed
          /\ Contains(Lower(sheets.review[i].Account_Type),
                      <<"m","a","s","s"," ","m","a","r","k","e","t">>)

\* C3 as stated: the detector is run only for a record none of the five checks
\* matched, and a record that matched the freemail list is not passed to it
\* and does not end University Contact.
C3_DetectorOnlyWhenNoCheckMatched ==
    \A i \in DOMAIN rows :
        /\ i \in called => RowChecks(i) = { }
        /\ 5 \in RowChecks(i) => i \notin called /\ rows[i].Status # University_Contact

\* C3: the detector is run for exactly the records whose Status is empty after
\* validate_lead: none of the four invalidating checks (country, direct
\* account, excluded domain, academic domain) matched and the body supplied no
\* Status. A match of the freemail list alone does not keep a record from it.
C3_DetectorWhenStatusStillEmpty ==
    \A i \in DOMAIN rows :
        i \in called <=> (RowChecks(i) \cap 1 .. 4 = { } /\ emails[i].Status = << >>)

\* A parsed record that matched the freemail list only, was passed to the
\* detector and is University Contact.
C3_Witness ==
    /\ pc = "parsed"
    /\ \E i \in DOMAIN rows :
          /\ RowChecks(i) = { 5 }
          /\ i \in called
          /\ rows[i].Status = University_Contact

\* ------------------------- validate_domain and the reference lists

\* C11: for a non-empty company and an email whose domain is on the
\* excluded-domains list and is not a free mailer, validate_domain returns
\* Excluded Domain with confidence high.
C11_ExcludedDomainReported ==
    ( /\ Returned
      /\ args.company # << >>
      /\ CallDomain # << >>
      /\ is_excluded_domain(loader, CallDomain)
      /\ ~DomainValidator_is_free_mailer(CallDomain) )
        => ret.status = "Excluded Domain" /\ ret.confidence = "high"

\* C12: a domain on the loaded freemail list is classified Free Mailer, also
\* when the built-in FREE_MAILERS list does not hold it.
C12_LoadedFreemailListConsulted ==
    ( /\ Returned
      /\ args.company # << >>
      /\ CallDomain # << >>
      /\ is_freemail_domain(loader, CallDomain) )
        => ret.status = "Free Mailer" /\ ret.confidence = "high"

\* ------------------------------------- classifying a record twice

ClassifyCompanies ==
    { << >>, <<"A","c","m","e"," ","C","o","r","p">>, <<"A","c","x","y">>,
      <<"A","n","k","a","r","a"," ","U","n","i","v","e","r","s","i","t","y">> }

ClassifyCountries == { << >>, <<"T","u","r","k","e","y">> }

ClassifyEmails ==
    { << >>, <<"j","a","n","e","@","a","c","m","e",".","c","o","m">>,
      <<"x","@","g","m","a","i","l",".","c","o","m">>, <<"x","@","m","i","t",".","e","d","u">> }

\* The three classification entry points on one record, as parse_email and
\* main call them; dns is what the resolver answers during the call.
classify(self, record, dns) ==
    [ lead       |-> validate_lead(self, record.company, record.country, record.email),
      university |-> is_university(record.company, record.country, record.email),
      domain     |-> validate_domain(record.company, record.email, dns) ]

InitClassify ==
    /\ pc = "call"
    /\ loader = ListedLoader
    /\ args \in [ company : ClassifyCompanies, country : ClassifyCountries,
                  email : ClassifyEmails, dns : DnsOutcomes ]
    /\ ret = NoResult
    /\ NoRun

Classify ==
    /\ pc = "call"
    /\ ret' = classify(loader, args, args.dns)
    /\ pc' = "returned"
    /\ UNCHANGED << loader, emails, rows, status_map, move_log, called, sheets, args, earlier, files, searches, locals, _cache, status_updates, driver >>

\* The same record classified again; the resolver may answer differently.
Reclassify ==
    /\ pc = "returned"
    /\ \E dns \in DnsOutcomes :
          /\ args' = [ args EXCEPT !.dns = dns ]
          /\ ret' = classify(loader, args, dns)
    /\ earlier' = [ args |-> args, ret |-> ret ]
    /\ pc' = "reclassified"
    /\ UNCHANGED << loader, emails, rows, status_map, move_log, called, sheets, files, searches, locals, _cache, status_updates, driver >>

NextClassify == Classify \/ Reclassify

SpecClassify == InitClassify /\ [][NextClassify]_vars

Reclassified == pc = "reclassified"

Unresolved(dns) == dns = "gaierror"

RecordScore ==
    calculate_similarity(normalize_name(args.company),
        normalize_name(extract_main_domain(DomainValidator_extract_domain(args.email))))

LeadTypes == { Country, Direct_Account, Excluded_Domain, Academic, Freemail, Valid }

DomainStatuses ==
    { "No Email Domain", "No Company Name", "Free Mailer" } \cup SimilarityStatuses

AllEmpty == args.company = << >> /\ args.country = << >> /\ args.email = << >>

MissingFile ==
    [ found |-> FALSE, has_option_values |-> FALSE, has_option_name |-> FALSE, rows |-> << >> ]

Cell(value) ==
    [ Option_Values |-> value, value_na |-> FALSE, Option_Name |-> << >>, name_na |-> TRUE ]

NamedCell(value, name) ==
    [ Option_Values |-> value, value_na |-> FALSE, Option_Name |-> name, name_na |-> FALSE ]

EmptyCell ==
    [ Option_Values |-> << >>, value_na |-> TRUE, Option_Name |-> << >>, name_na |-> TRUE ]

ValueFile(cells) ==
    [ found |-> TRUE, has_option_values |-> TRUE, has_option_name |-> FALSE, rows |-> cells ]

NamedFile(cells) ==
    [ found |-> TRUE, has_option_values |-> TRUE, has_option_name |-> TRUE, rows |-> cells ]

OtherColumnsFile(cells) ==
    [ found |-> TRUE, has_option_values |-> FALSE, has_option_name |-> FALSE, rows |-> cells ]

AcademicFiles ==
    { MissingFile,
      NamedFile(<< NamedCell(<<" ","M","I","T",".","e","d","u"," ">>, <<"M","I","T">>),
                   NamedCell(<<"o","l","d",".","e","d","u">>, <<"O","l","d"," ","C","o","l","l","e","g","e">>) >>),
      NamedFile(<< NamedCell(<<"m","i","t",".","e","d","u">>, <<"M","a","s","s","."," ","I","n","s","t",".">>),
                   EmptyCell >>) }

ExcludedFiles ==
    { MissingFile,
      ValueFile(<< Cell(<<"c","o","m","p","e","t","i","t","o","r",".","c","o","m">>),
                   Cell(<<"o","l","d",".","c","o","m">>) >>),
      ValueFile(<< Cell(<<"c","o","m","p","e","t","i","t","o","r",".","c","o","m">>) >>) }

DirectFiles ==
    { ValueFile(<< Cell(<<"B","o","s","c","h">>), Cell(<<"S","i","e","m","e","n","s">>) >>),
      OtherColumnsFile(<< Cell(<<"B","o","s","c","h">>) >>) }

CountryFiles == { ValueFile(<< Cell(<<"I","r","a","n">>) >>), ValueFile(<< >>) }

FreemailFiles == { ValueFile(<< Cell(<<"g","m","a","i","l",".","c","o","m">>) >>), MissingFile }

DataFolders ==
    [ academic_domains : AcademicFiles, excluded_domains : ExcludedFiles,
      direct_accounts : DirectFiles, blacklisted_countries : CountryFiles,
      freemail_domains : FreemailFiles ]

\* A loader as its constructor leaves it.
InitReload ==
    /\ pc = "loaded"
    /\ files \in DataFolders
    /\ loader = ValidationDataLoader(files)
    /\ emails = << >>
    /\ rows = << >>
    /\ status_map = << >>
    /\ move_log = << >>
    /\ called = { }
    /\ sheets = NoSheets
    /\ earlier = NoResult
    /\ NoLookup /\ NoReplay
    /\ args = NoResult
    /\ ret = NoResult

\* Somebody edits, removes or adds reference files.
EditFiles ==
    /\ pc = "loaded"
    /\ files' \in DataFolders
    /\ pc' = "edited"
    /\ UNCHANGED << loader, emails, rows, status_map, move_log, called, sheets, args, ret, earlier, searches, locals, _cache, status_updates, driver >>

\* load_all is called again on the loader.
Reload ==
    /\ pc = "edited"
    /\ loader' = load_all(loader, files)
    /\ pc' = "reloaded"
    /\ UNCHANGED << emails, rows, status_map, move_log, called, sheets, args, ret, earlier, files, searches, locals, _cache, status_updates, driver >>

NextReload == EditFiles \/ Reload

SpecReload == InitReload /\ [][NextReload]_vars

\* What a file holds: the trimmed, lowercased values of its value column.
SourceValues(df) ==
    IF df.found /\ df.has_option_values
    THEN { Lower(Strip(df.rows[i].Option_Values)) :
             i \in { j \in DOMAIN df.rows : ~df.rows[j].value_na } }
    ELSE { }

\* C15: after a reload each of the five sets holds exactly the values of its
\* source at reload time, and the name map only names domains of the source.
C15_ReloadReplacesSets ==
    pc = "reloaded" =>
        /\ loader.academic_domains = SourceValues(files.academic_domains)
        /\ loader.excluded_domains = SourceValues(files.excluded_domains)
        /\ loader.direct_accounts = SourceValues(files.direct_accounts)
        /\ loader.blacklisted_countries = SourceValues(files.blacklisted_countries)
        /\ loader.freemail_domains = SourceValues(files.freemail_domains)
        /\ DOMAIN loader.academic_domain_names \subseteq SourceValues(files.academic_domains)

\* ------------------------------------- membership tests on the reference sets

MemberDomains ==
    { << >>,
      <<" ">>,
      <<"e","x","a","m","p","l","e",".","e","d","u">>,
      <<"E","X","A","M","P","L","E",".","E","D","U">>,
      <<" ","M","a","i","l",".","E","X","A","M","P","L","E",".","e","d","u"," ">>,
      <<"a",".","b",".","e","x","a","m","p","l","e",".","e","d","u">>,
      <<"n","o","t","e","x","a","m","p","l","e",".","e","d","u">>,
      <<"x","a","m","p","l","e",".","e","d","u">>,
      <<"e","x","a","m","p","l","e",".","e","d","u",".","o","r","g">>,
      <<".","e","x","a","m","p","l","e",".","e","d","u">>,
      <<"c","a","m",".","a","c",".","u","k">>,
      <<"m","a","i","l",".","t","u","m",".","d","e">>,
      <<"e","d","u">> }

\* Files for the three domain lists; one holds a cell of a single blank.
DomainListFiles ==
    { MissingFile,
      ValueFile(<< Cell(<<"e","x","a","m","p","l","e",".","e","d","u">>) >>),
      ValueFile(<< Cell(<<" ","E","x","a","m","p","l","e",".","E","D","U"," ">>), Cell(<<"t","u","m",".","d","e">>) >>),
      ValueFile(<< Cell(<<"e","x","a","m","p","l","e",".","e","d","u">>), Cell(<<" ">>) >>),
      ValueFile(<< Cell(<<"a","c",".","u","k">>) >>) }

MemberFolders ==
    { [ academic_domains |-> f, excluded_domains |-> f, direct_accounts |-> MissingFile,
        blacklisted_countries |-> MissingFile, freemail_domains |-> f ] : f \in DomainListFiles }

InitMember ==
    /\ pc = "call"
    /\ loader \in { ValidationDataLoader(folder) : folder \in MemberFolders }
    /\ args \in [ domain : MemberDomains ]
    /\ ret = NoResult
    /\ NoRun

CallMembership ==
    /\ pc = "call"
    /\ ret' = [ academic |-> is_academic_domain(loader, args.domain),
                excluded |-> is_excluded_domain(loader, args.domain),
                freemail |-> is_freemail_domain(loader, args.domain) ]
    /\ pc' = "returned"
    /\ UNCHANGED << loader, emails, rows, status_map, move_log, called, sheets, args, earlier, files, searches, locals, _cache, status_updates, driver >>

NextMember == CallMembership

SpecMember == InitMember /\ [][NextMember]_vars

\* d is D or X.D: D after a dot at the end of d.
LabelSuffixMatch(d, D) ==
    \/ d = D
    \/ /\ Len(d) > Len(D)
       /\ SubSeq(d, Len(d) - Len(D), Len(d)) = << "." >> \o D

Listed(stored, domain) ==
    LET d == Lower(Strip(domain))
    IN  d # << >> /\ \E D \in stored : LabelSuffixMatch(d, D)

\* C16: each of the three tests answers true exactly for a non-empty domain
\* that is, in any letter case and between any blanks, a stored domain D or
\* X.D; so not for a domain that only ends with the characters of D, and not
\* for the empty domain.
C16_MembershipOnLabelBoundaries ==
    Returned =>
        /\ ret.academic = Listed(loader.academic_domains, args.domain)
        /\ ret.excluded = Listed(loader.excluded_domains, args.domain)
        /\ ret.freemail = Listed(loader.freemail_domains, args.domain)

\* ------------------------------------------ calls of extract_main_domain

\* Most labels of a domain name passed to extract_main_domain.
MaxLabels == 3

DomainLabels ==
    { <<"m","a","i","l">>, <<"w","w","w">>, <<"s","m","t","p">>, <<"e","x","a","m","p","l","e">>,
      <<"i","b","m">>, <<"c","o">>, <<"c","o","m">>, <<"u","k">> }

\* ".".join(labels)
RECURSIVE JoinDots(_)
JoinDots(labels) ==
    IF labels = << >> THEN << >>
    ELSE IF Len(labels) = 1 THEN labels[1]
    ELSE labels[1] \o << "." >> \o JoinDots(Tail(labels))

MainDomainArgs ==
    { JoinDots(labels) : labels \in UNION { [ 1 .. n -> DomainLabels ] : n \in 0 .. MaxLabels } }

InitMainDomain ==
    /\ pc = "call"
    /\ loader = EmptyLoader
    /\ args \in [ domain : MainDomainArgs ]
    /\ ret = NoResult
    /\ NoRun

CallExtractMainDomain ==
    /\ pc = "call"
    /\ ret' = [ main_domain |-> extract_main_domain(args.domain) ]
    /\ pc' = "returned"
    /\ UNCHANGED << loader, emails, rows, status_map, move_log, called, sheets, args, earlier, files, searches, locals, _cache, status_updates, driver >>

NextMainDomain == CallExtractMainDomain

SpecMainDomain == InitMainDomain /\ [][NextMainDomain]_vars

ConventionalSubdomains ==
    { <<"m","a","i","l">>, <<"e","m","a","i","l">>, <<"w","e","b","m","a","i","l">>,
      <<"s","m","t","p">>, <<"p","o","p">>, <<"i","m","a","p">>, <<"w","w","w">> }

ArgLabels == SplitOn(args.domain, ".")

\* The labels left when a leading conventional subdomain label in front of a
\* name and a tld has been dropped.
LabelsAfterDrop ==
    IF Len(ArgLabels) >= 3 /\ ArgLabels[1] \in ConventionalSubdomains
    THEN Tail(ArgLabels) ELSE ArgLabels

\* C17: extract_main_domain returns name for every two-label domain name.tld;
\* for a longer domain it drops one leading conventional subdomain label and
\* returns the second-to-last label, or the third-to-last when there is one
\* and the second-to-last has at most 3 characters.
C17_MainDomainIsTheName ==
    (Returned /\ args.domain # << >>) =>
        LET parts == LabelsAfterDrop
            n == Len(parts)
        IN  /\ Len(ArgLabels) = 2 => ret.main_domain = ArgLabels[1]
            /\ n = 2 => ret.main_domain = parts[1]
            /\ n >= 3 => ret.main_domain =
                             IF Len(parts[n - 1]) <= 3 THEN parts[n - 2] ELSE parts[n - 1]

\* ----------------------------------------- calls of calculate_similarity

\* Longest string compared.
MaxStrLen == 3

SimilarityChars == { "a", "b" }

SimilarityStrings == UNION { [ 1 .. n -> SimilarityChars ] : n \in 0 .. MaxStrLen }

InitSimilarity ==
    /\ pc = "call"
    /\ loader = EmptyLoader
    /\ args \in [ str1 : SimilarityStrings, str2 : SimilarityStrings ]
    /\ ret = NoResult
    /\ NoRun

CallCalculateSimilarity ==
    /\ pc = "call"
    /\ ret' = [ similarity |-> calculate_similarity(args.str1, args.str2) ]
    /\ pc' = "returned"
    /\ UNCHANGED << loader, emails, rows, status_map, move_log, called, sheets, args, earlier, files, searches, locals, _cache, status_updates, driver >>

NextSimilarity == CallCalculateSimilarity

SpecSimilarity == InitSimilarity /\ [][NextSimilarity]_vars

\* x occurs in y as a run of consecutive characters.
OccursIn(x, y) ==
    \E i \in 0 .. (Len(y) - Len(x)) : SubSeq(y, i + 1, i + Len(x)) = x

Agreeing(x, y) == { i \in (DOMAIN x) \cap (DOMAIN y) : x[i] = y[i] }

Longer(x, y) == IF Len(x) >= Len(y) THEN Len(x) ELSE Len(y)

\* The fraction f equals n / d.
IsFraction(f, n, d) == f[1] * d = n * f[2]

\* C18: calculate_similarity returns a value in [0,1]: 0 when either string
\* is empty, 1 for equal non-empty strings, 0.8 when the strings differ and
\* one occurs in the other, and otherwise the number of positions below the
\* shorter length where the characters agree, divided by the longer length.
C18_SimilarityValue ==
    Returned =>
        LET x == args.str1
            y == args.str2
            f == ret.similarity
        IN  /\ f[2] > 0 /\ 0 <= f[1] /\ f[1] <= f[2]
            /\ IF x = << >> \/ y = << >> THEN IsFraction(f, 0, 1)
               ELSE IF x = y THEN IsFraction(f, 1, 1)
               ELSE IF OccursIn(x, y) \/ OccursIn(y, x) THEN IsFraction(f, 4, 5)
               ELSE IsFraction(f, Cardinality(Agreeing(x, y)), Longer(x, y))

\* Strings of different lengths, neither inside the other, that agree somewhere.
C18_Witness ==
    /\ Returned
    /\ Len(args.str1) < Len(args.str2)
    /\ ~OccursIn(args.str1, args.str2)
    /\ Agreeing(args.str1, args.str2) # { }
    /\ IsFraction(ret.similarity, Cardinality(Agreeing(args.str1, args.str2)), Len(args.str2))

\* ---------------------------------------------------------------------------
\* normalize_text (university_detector.py) and DomainValidator.normalize_name
\* (domain_validator.py) applied to a text and then to their own result.
\* ---------------------------------------------------------------------------

MaxTextLen == 3

NormalizeChars == { "s", "a", ".", " ", "A", "ü" }

NormalizeTexts == UNION { [ 1..n -> NormalizeChars ] : n \in 0..MaxTextLen }

InitNormalize ==
    /\ pc = "call"
    /\ loader = EmptyLoader
    /\ args \in [ text : NormalizeTexts ]
    /\ ret = NoResult
    /\ NoRun

CallNormalize ==
    /\ pc = "call"
    /\ ret' = [ text |-> normalize_text(args.text), name |-> normalize_name(args.text) ]
    /\ pc' = "returned"
    /\ UNCHANGED << loader, emails, rows, status_map, move_log, called, sheets, args, earlier, files, searches, locals, _cache, status_updates, driver >>

CallNormalizeAgain ==
    /\ pc = "returned"
    /\ earlier' = ret
    /\ ret' = [ text |-> normalize_text(ret.text), name |-> normalize_name(ret.name) ]
    /\ pc' = "normalized again"
    /\ UNCHANGED << loader, emails, rows, status_map, move_log, called, sheets, args, files, searches, locals, _cache, status_updates, driver >>

NextNormalize == CallNormalize \/ CallNormalizeAgain

SpecNormalize == InitNormalize /\ [][NextNormalize]_vars

NormalizedAgain == pc = "normalized again"

\* C19: normalize_text and normalize_name are idempotent: applied to their own
\* result, each returns that result unchanged.
C19_NormalizersIdempotent ==
    NormalizedAgain => /\ ret.text = earlier.text
                       /\ ret.name = earlier.name

\* The part of C19 about normalize_text alone.
C19_NormalizeTextIdempotent == NormalizedAgain => ret.text = earlier.text

\* normalize_name applied to its own result changes it exactly when the result
\* is one of the company suffixes, and then returns the empty text.
C19_NormalizeNameSecondPass ==
    NormalizedAgain =>
        ret.name = IF earlier.name \in Range(COMPANY_SUFFIXES) THEN << >> ELSE earlier.name

\* ---------------------------------------------------------------------------
\* sap_crm.py: SAPCRMLookup._normalize_company_name and _generate_candidates.
\* ---------------------------------------------------------------------------

MAX_FIELD_LEN == 40

\* COMPANY_SUFFIXES of sap_crm.py (lines 35-39): a set holding the same words as
\* the suffix list of DomainValidator.normalize_name.
SAP_COMPANY_SUFFIXES == Range(COMPANY_SUFFIXES)

\* s.replace(ch, by) for every ch of chars.
ReplaceChars(s, chars, by) == [ i \in DOMAIN s |-> IF s[i] \in chars THEN by ELSE s[i] ]

\* " ".join(words)
RECURSIVE JoinSpace(_)
JoinSpace(words) ==
    IF words = << >> THEN << >>
    ELSE IF Len(words) = 1 THEN Head(words)
    ELSE Head(words) \o << " " >> \o JoinSpace(Tail(words))

\* s[:n]
Take(s, n) == SubSeq(s, 1, IF Len(s) < n THEN Len(s) ELSE n)

IsNotCompanySuffix(t) == Lower(t) \notin SAP_COMPANY_SUFFIXES

_normalize_company_name(name) ==
    IF name = << >> THEN << >>
    ELSE LET s      == Strip(ReplaceChars(name, { "(", ")", "[", "]", "{", "}" }, " "))
             tokens == SelectSeq(SplitWords(ReplaceChars(s, { ",", "." }, " ")),
                                 IsNotCompanySuffix)
         IN  JoinSpace(SplitWords(JoinSpace(tokens)))

\* The loop of lines 659-662 tested against the untruncated candidate.
RECURSIVE first_words_untruncated_test(_, _, _)
first_words_untruncated_test(tokens, n, candidates) ==
    IF n = 0 THEN candidates
    ELSE LET cand == Strip(JoinSpace(SubSeq(tokens, 1, n)))
         IN  first_words_untruncated_test(tokens, n - 1,
                 IF cand # << >> /\ cand \notin Range(candidates)
                 THEN Append(candidates, Take(cand, MAX_FIELD_LEN))
                 ELSE candidates)

\* for n in range(max_n, 0, -1) (lines 659-662).
RECURSIVE first_words(_, _, _)
first_words(tokens, n, candidates) ==
    IF n = 0 THEN candidates
    ELSE LET cand == Strip(JoinSpace(SubSeq(tokens, 1, n)))
         IN  first_words(tokens, n - 1,
                 IF cand # << >> /\ Take(cand, MAX_FIELD_LEN) \notin Range(candidates)
                 THEN Append(candidates, Take(cand, MAX_FIELD_LEN))
                 ELSE candidates)

_generate_candidates_untruncated_test(company) ==
    LET base == _normalize_company_name(company)
    IN  IF base = << >> THEN << >>
        ELSE LET tokens == SplitWords(base)
                 max_n  == IF Len(tokens) < 5 THEN Len(tokens) ELSE 5
             IN  first_words_untruncated_test(tokens, max_n, << Take(base, MAX_FIELD_LEN) >>)

_generate_candidates(company) ==
    LET base == _normalize_company_name(company)
    IN  IF base = << >> THEN << >>
        ELSE LET tokens == SplitWords(base)
                 max_n  == IF Len(tokens) < 5 THEN Len(tokens) ELSE 5
             IN  first_words(tokens, max_n, << Take(base, MAX_FIELD_LEN) >>)

MaxWords == 6

CompanyWords ==
    { <<"H","a","l","b","l","e","i","t","e","r">>, <<"G","m","b","H",",">>,
      <<"(","A","c","m","e",")">>, <<"C","o",".">> }

CompanyNames == { JoinSpace(ws) : ws \in UNION { [ 1..n -> CompanyWords ] : n \in 0..MaxWords } }

InitCandidates ==
    /\ pc = "call"
    /\ loader = EmptyLoader
    /\ args \in [ company : CompanyNames ]
    /\ ret = NoResult
    /\ NoRun

CallGenerateCandidates ==
    /\ pc = "call"
    /\ ret' = [ candidates |-> _generate_candidates(args.company) ]
    /\ pc' = "returned"
    /\ UNCHANGED << loader, emails, rows, status_map, move_log, called, sheets, args, earlier, files, searches, locals, _cache, status_updates, driver >>

NextCandidates == CallGenerateCandidates

SpecCandidates == InitCandidates /\ [][NextCandidates]_vars

\* The suffix-stripped cleaned name of the argument and its words.
CleanedName == _normalize_company_name(args.company)

CleanedWords == SplitWords(CleanedName)

\* The cleaned name, then its first 5 (or fewer) words down to its first word,
\* each cut to MAX_FIELD_LEN characters.
WantedTerms ==
    LET max_n == IF Len(CleanedWords) < 5 THEN Len(CleanedWords) ELSE 5
    IN  << Take(CleanedName, MAX_FIELD_LEN) >> \o
        [ i \in 1..max_n |->
              Take(JoinSpace(SubSeq(CleanedWords, 1, max_n + 1 - i)), MAX_FIELD_LEN) ]

\* s without the elements that repeat an earlier element.
FirstOccurrences(s) ==
    LET keep == { i \in DOMAIN s : \A j \in 1..(i - 1) : s[j] # s[i] }
    IN  [ k \in 1..Cardinality(keep) |->
              s[CHOOSE i \in keep : Cardinality({ j \in keep : j <= i }) = k] ]

\* C20: _generate_candidates returns the cleaned name cut to 40 characters, then
\* the first-5-words down to first-1-word prefixes in that order, without equal
\* entries, without an entry longer than 40 characters and without an empty
\* entry; a name that is empty after cleaning gives the empty list.
C20_CandidateList ==
    Returned =>
        LET c == ret.candidates
        IN  /\ CleanedName = << >> => c = << >>
            /\ CleanedName # << >> =>
                   /\ c # << >>
                   /\ c[1] = Take(CleanedName, 40)
                   /\ c = FirstOccurrences(WantedTerms)
                   /\ \A i, j \in DOMAIN c : i # j => c[i] # c[j]
                   /\ \A i \in DOMAIN c : Len(c[i]) \in 1..40

\* A name of more than five words and more than 40 characters has returned a
\* cut first entry and shorter prefixes after it.
C20_Witness ==
    /\ Returned
    /\ Len(CleanedWords) > 5
    /\ Len(CleanedName) > 40
    /\ Len(ret.candidates) >= 3
    /\ Len(WantedTerms) > Len(ret.candidates)

\* ---------------------------------------------------------------------------
\* parser.py: the field catalogue, the label and value helpers, _parse_text,
\* _parse_html and the row of parse_email (lines 64-90).
\* ---------------------------------------------------------------------------

\* FIELDS (lines 20-49); the arrow of "Valid Company -> Reject Reason" is written
\* in ASCII.
FIELDS ==
    << <<"S","u","b","j","e","c","t">>,
       <<"S","e","n","d","e","r">>,
       <<"R","e","c","e","i","v","e","d","T","i","m","e">>,
       <<"A","l","l"," ","E","m","a","i","l","s"," ","F","o","u","n","d">>,
       <<"F","i","r","s","t"," ","N","a","m","e">>,
       <<"L","a","s","t"," ","N","a","m","e">>,
       <<"E","m","a","i","l"," ","A","d","d","r","e","s","s">>,
       <<"C","o","m","p","a","n","y">>,
       <<"P","a","g","e","s"," ","V","i","e","w","e","d">>,
       <<"S","u","b","m","i","t"," ","T","i","m","e">>,
       <<"F","o","r","m"," ","N","a","m","e">>,
       <<"U","R","L"," ","O","f"," ","F","o","r","m">>,
       <<"S","a","l","u","t","a","t","i","o","n">>,
       <<"B","u","s","i","n","e","s","s"," ","P","h","o","n","e">>,
       <<"C","o","u","n","t","r","y">>,
       <<"C","i","t","y">>,
       <<"S","t","a","t","e","/","P","r","o","v","i","n","c","e">>,
       <<"R","e","s","e","a","r","c","h","e","d"," ","S","t","a","t","e"," ","o","r"," ","P","r","o","v","i","n","c","e">>,
       <<"J","o","b"," ","R","o","l","e">>,
       <<"I","n","d","u","s","t","r","y">>,
       <<"L","e","a","d"," ","T","r","i","g","g","e","r","i","n","g"," ","A","c","t","i","v","i","t","i","e","s">>,
       <<"P","r","o","j","e","c","t"," ","y","e","s","/","n","o">>,
       <<"S","t","a","r","t"," ","o","f"," ","P","r","o","d","u","c","t","i","o","n">>,
       <<"P","r","o","j","e","c","t"," ","V","o","l","u","m","e">>,
       <<"P","r","o","j","e","c","t"," ","T","i","m","e","f","r","a","m","e">>,
       <<"R","e","j","e","c","t","i","o","n"," ","r","e","a","s","o","n">>,
       <<"R","e","j","e","c","t","i","o","n"," ","r","e","a","s","o","n"," ","f","r","e","e"," ","t","e","x","t">>,
       <<"L","e","a","d"," ","S","o","u","r","c","e"," ","-"," ","M","o","s","t"," ","R","e","c","e","n","t">>,
       <<"L","e","a","d"," ","S","o","u","r","c","e"," ","-"," ","O","r","i","g","i","n","a","l">>,
       <<"L","e","a","d"," ","S","o","u","r","c","e"," ","N","a","m","e"," ","-"," ","M","o","s","t"," ","R","e","c","e","n","t">>,
       <<"L","e","a","d"," ","S","o","u","r","c","e"," ","N","a","m","e"," ","-"," ","O","r","i","g","i","n","a","l">>,
       <<"L","e","a","d"," ","T","r","i","g","g","e","r">>,
       <<"L","e","a","d"," ","L","i","f","e","c","y","c","l","e"," ","C","o","u","n","t">>,
       <<"A","c","c","o","u","n","t"," ","T","y","p","e">>,
       <<"L","e","a","d"," ","L","i","f","e","c","y","c","l","e"," ","I","D">>,
       <<"L","e","a","d"," ","e","d","i","t","o","r">>,
       <<"S","u","b","j","e","c","t"," ","L","i","n","e">>,
       <<"N","o","t","i","f","i","c","a","t","i","o","n">>,
       <<"P","r","e","M","Q","L"," ","r","e","v","i","e","w","/","v","a","l","i","d","a","t","i","o","n"," ","l","i","n","k">>,
       <<"C","o","m","p","a","n","y"," ","M","a","t","c","h","i","n","g"," ","S","t","a","t","u","s">>,
       <<"P","o","t","e","n","t","i","a","l"," ","D","i","s","t","r","i","b","u","t","i","o","n"," ","P","a","r","t","n","e","r"," ","(","m","a","t","c","h","i","n","g"," ","i","n"," ","b","e","t","a"," ","t","e","s","t","i","n","g",")">>,
       <<"D","i","g","i","t","a","l"," ","a","c","t","i","v","i","t","y">>,
       <<"E","l","o","q","u","a"," ","P","r","o","f","i","l","e","r">>,
       <<"I","n","i","t","i","a","l"," ","C","a","l","l"," ","N","o","t","e","s">>,
       <<"H","a","s"," ","C","o","n","t","a","c","t"," ","S","a","l","e","s"," ","F","o","r","m">>,
       <<"S","t","a","t","u","s">>,
       <<"A","c","t","i","o","n"," ","T","a","k","e","n">>,
       <<"C","o","m","p","a","n","y"," ","D","o","m","a","i","n"," ","V","a","l","i","d","a","t","i","o","n">>,
       <<"V","a","l","i","d","a","t","i","o","n"," ","S","t","a","t","u","s">>,
       <<"V","a","l","i","d","a","t","i","o","n"," ","R","e","a","s","o","n">>,
       <<"T","a","k","e"," ","A","c","t","i","o","n">>,
       <<"V","a","l","i","d"," ","C","o","m","p","a","n","y"," ","-",">"," ","R","e","j","e","c","t"," ","R","e","a","s","o","n">>,
       <<"I","n","v","a","l","i","d"," ","C","o","m","p","a","n","y"," ","R","e","a","s","o","n">>,
       <<"R","e","j","e","c","t"," ","R","e","a","s","o","n">>,
       <<"A","d","d","i","t","i","o","n","a","l"," ","S","c","o","r","i","n","g"," ","I","n","f","o","r","m","a","t","i","o","n">>,
       <<"S","e","n","d"," ","t","o">>,
       <<"M","o","v","e"," ","t","o"," ","F","o","l","d","e","r">>,
       <<"F","o","r","m"," ","S","u","b","m","i","s","s","i","o","n"," ","S","t","a","t","u","s">>,
       <<"E","m","a","i","l"," ","M","o","v","e"," ","S","t","a","t","u","s">> >>

\* A dict is a function from its keys; {} is the function without keys.
EmptyDict == << >>

\* d[k] = v
DictPut(d, k, v) == [ x \in (DOMAIN d) \cup { k } |-> IF x = k THEN v ELSE d[x] ]

\* d.update(e)
DictUpdate(d, e) == [ x \in (DOMAIN d) \cup (DOMAIN e) |-> IF x \in DOMAIN e THEN e[x] ELSE d[x] ]

\* d.get(k, "")
DictGet(d, k) == IF k \in DOMAIN d THEN d[k] ELSE << >>

\* "\n".join(items)
RECURSIVE JoinLines(_)
JoinLines(items) ==
    IF items = << >> THEN << >>
    ELSE IF Len(items) = 1 THEN Head(items)
    ELSE Head(items) \o << "\n" >> \o JoinLines(Tail(items))

\* The first position where pat, a lower-case text, occurs in s whatever the
\* case of s, at or after position from; 0 when there is none.
FindIgnoreCase(s, pat, from) ==
    LET hits == { i \in from..(Len(s) - Len(pat) + 1) :
                      Lower(SubSeq(s, i, i + Len(pat) - 1)) = pat }
    IN  IF hits = { } THEN 0 ELSE CHOOSE i \in hits : \A j \in hits : i <= j

\* The first position of pat in s, 0 when there is none.
Find(s, pat) ==
    LET hits == { i \in 1..(Len(s) - Len(pat) + 1) : SubSeq(s, i, i + Len(pat) - 1) = pat }
    IN  IF hits = { } THEN 0 ELSE CHOOSE i \in hits : \A j \in hits : i <= j

PREMQL_LINK == <<"P","r","e","M","Q","L"," ","r","e","v","i","e","w","/","v","a","l","i","d","a","t","i","o","n"," ","l","i","n","k">>

COMPANY_MATCHING_STATUS == <<"C","o","m","p","a","n","y"," ","M","a","t","c","h","i","n","g"," ","S","t","a","t","u","s">>

ELOQUA_PROFILER == <<"E","l","o","q","u","a"," ","P","r","o","f","i","l","e","r">>

COPYRIGHT == <<"C","o","p","y","r","i","g","h","t">>

\* The keys of aliases in _normalize_label (lines 256-260); each stands for
\* "PreMQL review/validation link".
LABEL_ALIASES ==
    { <<"l","e","a","d"," ","q","u","a","l","i","f","i","c","a","t","i","o","n"," ","l","i","n","k">>,
      <<"q","u","a","l","i","f","i","c","a","t","i","o","n"," ","l","i","n","k">>,
      <<"c","l","i","c","k"," ","h","e","r","e">> }

IsNotColon(c) == c # ":"

_normalize_label(text) ==
    LET t     == Strip(SelectSeq(text, IsNotColon))
        lower == Lower(t)
    IN  IF lower \in LABEL_ALIASES THEN PREMQL_LINK
        ELSE IF \E i \in DOMAIN FIELDS : lower = Lower(FIELDS[i])
             THEN FIELDS[CHOOSE i \in DOMAIN FIELDS :
                             /\ lower = Lower(FIELDS[i])
                             /\ \A j \in 1..(i - 1) : lower # Lower(FIELDS[j])]
        ELSE t

\* re.sub(r'Copyright.*?All rights reserved\.?', '', value, DOTALL | IGNORECASE)
RECURSIVE RemoveCopyrightNotices(_)
RemoveCopyrightNotices(value) ==
    LET i == FindIgnoreCase(value, <<"c","o","p","y","r","i","g","h","t">>, 1)
        j == IF i = 0 THEN 0
             ELSE FindIgnoreCase(value,
                      <<"a","l","l"," ","r","i","g","h","t","s"," ","r","e","s","e","r","v","e","d">>,
                      i + 9)
        e == IF j + 19 <= Len(value) /\ value[j + 19] = "." THEN j + 19 ELSE j + 18
    IN  IF i = 0 \/ j = 0 THEN value
        ELSE SubSeq(value, 1, i - 1) \o RemoveCopyrightNotices(SubSeq(value, e + 1, Len(value)))

\* re.sub(r'Oracle and/or its affiliates\.?', '', value, IGNORECASE)
RECURSIVE RemoveOracleNotices(_)
RemoveOracleNotices(value) ==
    LET pat == <<"o","r","a","c","l","e"," ","a","n","d","/","o","r"," ","i","t","s"," ",
                 "a","f","f","i","l","i","a","t","e","s">>
        i == FindIgnoreCase(value, pat, 1)
        e == IF i + Len(pat) <= Len(value) /\ value[i + Len(pat)] = "."
             THEN i + Len(pat) ELSE i + Len(pat) - 1
    IN  IF i = 0 THEN value
        ELSE SubSeq(value, 1, i - 1) \o RemoveOracleNotices(SubSeq(value, e + 1, Len(value)))

HTTP == <<"h","t","t","p",":","/","/">>

HTTPS == <<"h","t","t","p","s",":","/","/">>

\* The text after "http://" or "https://" at the head of s; "<None>" when s
\* starts with neither.
AfterScheme(s) ==
    IF StartsWith(s, HTTPS) THEN SubSeq(s, 9, Len(s))
    ELSE IF StartsWith(s, HTTP) THEN SubSeq(s, 8, Len(s))
    ELSE << "<None>" >>

\* The characters of s before its first whitespace.
UpToSpace(s) ==
    LET ws == { i \in DOMAIN s : s[i] \in Whitespace }
    IN  IF ws = { } THEN s ELSE SubSeq(s, 1, (CHOOSE i \in ws : \A j \in ws : i <= j) - 1)

\* re.sub(r'<https?://[^>]+>', '', value)
RECURSIVE RemoveBracketedUrls(_)
RemoveBracketedUrls(value) ==
    IF value = << >> THEN << >>
    ELSE LET rest  == AfterScheme(Tail(value))
             close == Find(rest, << ">" >>)
         IN  IF Head(value) = "<" /\ rest # << "<None>" >> /\ close > 1
             THEN RemoveBracketedUrls(SubSeq(rest, close + 1, Len(rest)))
             ELSE << Head(value) >> \o RemoveBracketedUrls(Tail(value))

\* r'https?://[^\s]*tinydot\.gif[^\s]*'
IsTinydotUrl(rest) == Contains(UpToSpace(rest), <<"t","i","n","y","d","o","t",".","g","i","f">>)

\* r'https?://img\d+\.en25\.com[^\s]*'
IsEn25ImageUrl(rest) ==
    /\ StartsWith(rest, <<"i","m","g">>)
    /\ \E n \in 4..Len(rest) :
           /\ \A k \in 4..n : rest[k] \in DigitChars
           /\ StartsWith(SubSeq(rest, n + 1, Len(rest)), <<".","e","n","2","5",".","c","o","m">>)

\* re.sub of a URL pattern that runs to the next whitespace; tinydot says which
\* of the two patterns (lines 243, 244).
RECURSIVE RemoveUrls(_, _)
RemoveUrls(value, tinydot) ==
    IF value = << >> THEN << >>
    ELSE LET rest == AfterScheme(value)
             hit  == /\ rest # << "<None>" >>
                     /\ IF tinydot THEN IsTinydotUrl(rest) ELSE IsEn25ImageUrl(rest)
         IN  IF hit
             THEN RemoveUrls(SubSeq(rest, Len(UpToSpace(rest)) + 1, Len(rest)), tinydot)
             ELSE << Head(value) >> \o RemoveUrls(Tail(value), tinydot)

IsNotEmpty(l) == l # << >>

\* [l.strip() for l in value.splitlines() if l.strip()]
StrippedLines(value) ==
    LET ls == SplitOn(value, "\n")
    IN  SelectSeq([ i \in DOMAIN ls |-> Strip(ls[i]) ], IsNotEmpty)

_clean_value(value) ==
    IF value = << >> THEN << >>
    ELSE LET i  == Find(value, COPYRIGHT)
             v1 == IF i > 0 THEN Strip(SubSeq(value, 1, i - 1)) ELSE value
             v2 == RemoveOracleNotices(RemoveCopyrightNotices(v1))
             v3 == RemoveUrls(RemoveUrls(RemoveBracketedUrls(v2), TRUE), FALSE)
         IN  IF Strip(v3) = COMPANY_MATCHING_STATUS THEN << >>
             ELSE Strip(JoinLines(StrippedLines(v3)))

\* The escapes unquote is modelled for, with the characters they stand for.
PERCENT_CODES == << <<"%","3","A">>, <<"%","2","F">>, <<"%","3","F">>, <<"%","3","D">>, <<"%","2","6">> >>

PERCENT_CHARS == << ":", "/", "?", "=", "&" >>

\* urllib.parse.unquote for the escapes of PERCENT_CODES (either case of the
\* hexadecimal digit); other characters stay.
RECURSIVE unquote(_)
unquote(s) ==
    IF s = << >> THEN << >>
    ELSE IF Len(s) >= 3 /\ \E k \in DOMAIN PERCENT_CODES : Upper(SubSeq(s, 1, 3)) = PERCENT_CODES[k]
         THEN << PERCENT_CHARS[CHOOSE k \in DOMAIN PERCENT_CODES :
                                   Upper(SubSeq(s, 1, 3)) = PERCENT_CODES[k]] >>
              \o unquote(SubSeq(s, 4, Len(s)))
         ELSE << Head(s) >> \o unquote(Tail(s))

\* The characters of s before the first character of stops.
Before(s, stops) ==
    LET hits == { i \in DOMAIN s : s[i] \in stops }
    IN  IF hits = { } THEN s ELSE SubSeq(s, 1, (CHOOSE i \in hits : \A j \in hits : i <= j) - 1)

\* The text after the first occurrence of pat in s, << >> when there is none.
After(s, pat) ==
    LET i == Find(s, pat)
    IN  IF i = 0 THEN << >> ELSE SubSeq(s, i + Len(pat), Len(s))

\* urlparse(url).netloc and .query
Netloc(url) == Before(After(url, <<"/","/">>), { "/", "?", "#" })

Query(url) == Before(After(Before(url, { "#" }), << "?" >>), { "#" })

PlusToSpace(s) == [ i \in DOMAIN s |-> IF s[i] = "+" THEN " " ELSE s[i] ]

\* parse_qs(query)[key][0]: the decoded value of the first pair of that name
\* which has a value; << >> when the key is not in the result.
FirstQueryValue(query, key) ==
    LET pairs == SplitOn(query, "&")
        named(i) == /\ Find(pairs[i], << "=" >>) > 0
                    /\ unquote(PlusToSpace(Before(pairs[i], { "=" }))) = key
                    /\ After(pairs[i], << "=" >>) # << >>
        hits == { i \in DOMAIN pairs : named(i) }
    IN  IF query = << >> \/ hits = { } THEN << >>
        ELSE unquote(PlusToSpace(After(pairs[CHOOSE i \in hits : \A j \in hits : i <= j],
                                       << "=" >>)))

REDIRECT_KEYS == << <<"u","r","l">>, <<"u">>, <<"r","e","d","i","r","e","c","t">>, <<"t","a","r","g","e","t">> >>

_unwrap_url(url) ==
    LET value(k) == FirstQueryValue(Query(url), REDIRECT_KEYS[k])
        hits == { k \in DOMAIN REDIRECT_KEYS : StartsWith(value(k), <<"h","t","t","p">>) }
    IN  IF /\ Contains(Netloc(url), <<"s","a","f","e","l","i","n","k","s",".","p","r","o","t","e","c","t","i","o","n",".",
                                      "o","u","t","l","o","o","k",".","c","o","m">>)
           /\ value(1) # << >>
        THEN unquote(value(1))
        ELSE IF hits # { } THEN unquote(value(CHOOSE k \in hits : \A j \in hits : k <= j))
        ELSE url

\* s starts, whatever its case, with the lower-case words, one or more
\* whitespace characters between two of them.
RECURSIVE StartsWithWords(_, _)
StartsWithWords(s, words) ==
    IF words = << >> THEN TRUE
    ELSE /\ Len(s) >= Len(Head(words))
         /\ Lower(SubSeq(s, 1, Len(Head(words)))) = Head(words)
         /\ LET rest == SubSeq(s, Len(Head(words)) + 1, Len(s))
            IN  \/ Tail(words) = << >>
                \/ /\ rest # << >>
                   /\ Head(rest) \in Whitespace
                   /\ StartsWithWords(LStrip(rest), Tail(words))

\* re.search(r"click\s+(here|on\s+this\s+link)", line, re.I)
HasClickPhrase(line) ==
    \E i \in DOMAIN line :
        LET rest == SubSeq(line, i, Len(line))
        IN  \/ StartsWithWords(rest, << <<"c","l","i","c","k">>, <<"h","e","r","e">> >>)
            \/ StartsWithWords(rest, << <<"c","l","i","c","k">>, <<"o","n">>, <<"t","h","i","s">>,
                                        <<"l","i","n","k">> >>)

URL_STOPS == Whitespace \cup { "\"", "'", ">" }

\* URL_PATTERN.search(text).group(0), << >> when there is no match.
FirstUrl(text) ==
    LET starts == { i \in DOMAIN text :
                        LET rest == AfterScheme(Lower(SubSeq(text, i, Len(text))))
                        IN  rest # << "<None>" >> /\ Before(rest, URL_STOPS) # << >> }
    IN  IF starts = { } THEN << >>
        ELSE LET i    == CHOOSE k \in starts : \A j \in starts : k <= j
                 here == SubSeq(text, i, Len(text))
             IN  Before(here, URL_STOPS)

NoField == << "<None>" >>

\* The loop without line 201: the buffer is kept when a new label is seen.
RECURSIVE scan_lines_keeps_buffer(_, _, _, _, _)
scan_lines_keeps_buffer(lines, i, current_field, buffer, data) ==
    LET emitted == IF current_field # NoField /\ buffer # << >>
                   THEN DictPut(data, current_field, _clean_value(Strip(JoinLines(buffer))))
                   ELSE data
    IN  IF i > Len(lines) \/ StartsWith(lines[i], COPYRIGHT) THEN emitted
        ELSE IF _normalize_label(lines[i]) \in Range(FIELDS)
             THEN scan_lines_keeps_buffer(lines, i + 1, _normalize_label(lines[i]), buffer, emitted)
        ELSE IF current_field # NoField
             THEN scan_lines_keeps_buffer(lines, i + 1, current_field, Append(buffer, lines[i]), data)
        ELSE scan_lines_keeps_buffer(lines, i + 1, current_field, buffer, data)

\* The loop of lines 192-203 from line i on, then lines 205-206.
RECURSIVE scan_lines(_, _, _, _, _)
scan_lines(lines, i, current_field, buffer, data) ==
    LET emitted == IF current_field # NoField /\ buffer # << >>
                   THEN DictPut(data, current_field, _clean_value(Strip(JoinLines(buffer))))
                   ELSE data
    IN  IF i > Len(lines) \/ StartsWith(lines[i], COPYRIGHT) THEN emitted
        ELSE IF _normalize_label(lines[i]) \in Range(FIELDS)
             THEN scan_lines(lines, i + 1, _normalize_label(lines[i]), << >>, emitted)
        ELSE IF current_field # NoField
             THEN scan_lines(lines, i + 1, current_field, Append(buffer, lines[i]), data)
        ELSE scan_lines(lines, i + 1, current_field, buffer, data)

ContainsNoMatchingStatus(p) == p # << >> /\ ~Contains(p, COMPANY_MATCHING_STATUS)

\* Lines 209-218.
split_premql_link(data) ==
    IF PREMQL_LINK \in DOMAIN data /\ Contains(data[PREMQL_LINK], COMPANY_MATCHING_STATUS)
    THEN LET parts  == SplitOn(data[PREMQL_LINK], "\n")
             first  == DictPut(data, PREMQL_LINK, Strip(parts[1]))
             others == SelectSeq([ k \in 1..(Len(parts) - 1) |-> Strip(parts[k + 1]) ],
                                 ContainsNoMatchingStatus)
         IN  IF others # << >> THEN DictPut(first, COMPANY_MATCHING_STATUS, others[1]) ELSE first
    ELSE data

\* Lines 221-228.
find_link_in_text(lines, data) ==
    LET window(i) == JoinLines(SubSeq(lines, i, IF i + 4 < Len(lines) THEN i + 4 ELSE Len(lines)))
        clicks == { i \in DOMAIN lines : HasClickPhrase(lines[i]) }
        hits   == { i \in clicks : FirstUrl(window(i)) # << >> }
    IN  IF PREMQL_LINK \in DOMAIN data \/ hits = { } THEN data
        ELSE DictPut(data, PREMQL_LINK,
                     _unwrap_url(FirstUrl(window(CHOOSE i \in hits : \A j \in hits : i <= j))))

\* body is the list body.splitlines() gives.
_parse_text(body) ==
    LET lines == [ i \in DOMAIN body |-> Strip(body[i]) ]
    IN  find_link_in_text(lines, split_premql_link(scan_lines(lines, 1, NoField, << >>, EmptyDict)))

\* An HTML body as BeautifulSoup presents it to _parse_html: the table rows of
\* two or more cells, each with the text of its first cell, the text of its
\* second cell and the href of the first link in the second cell (<< >> when it
\* has none), and every anchor of the document with its text and href.
NoHtml == [ rows |-> << >>, anchors |-> << >> ]

\* Lines 156-167 for one table row.
put_table_row(data, tr) ==
    LET label == _normalize_label(Strip(tr.label))
        value == Strip(tr.value)
    IN  IF tr.href # << >>
        THEN IF Contains(Lower(label), <<"l","i","n","k">>) \/ Contains(Lower(label), <<"u","r","l">>)
             THEN DictPut(data, label, _unwrap_url(tr.href))
             ELSE DictPut(data, label, value)
        ELSE IF value # << >> THEN DictPut(data, label, _clean_value(value))
        ELSE data

RECURSIVE put_table_rows(_, _)
put_table_rows(data, trs) ==
    IF trs = << >> THEN data ELSE put_table_rows(put_table_row(data, Head(trs)), Tail(trs))

LINK_KEYWORDS ==
    { <<"c","l","i","c","k"," ","h","e","r","e">>, <<"q","u","a","l","i","f","y">>,
      <<"q","u","a","l","i","f","i","c","a","t","i","o","n">> }

\* Lines 170-180 for one anchor.
put_anchor(data, anchor) ==
    LET text == Lower(Strip(anchor.text))
        href == Strip(anchor.href)
    IN  IF href = << >> THEN data
        ELSE IF \E kw \in LINK_KEYWORDS : Contains(text, kw)
             THEN DictPut(data, PREMQL_LINK, _unwrap_url(href))
        ELSE IF Contains(text, <<"p","r","o","f","i","l","e","r">>)
             THEN DictPut(data, ELOQUA_PROFILER, _unwrap_url(href))
        ELSE data

RECURSIVE put_anchors(_, _)
put_anchors(data, anchors) ==
    IF anchors = << >> THEN data ELSE put_anchors(put_anchor(data, Head(anchors)), Tail(anchors))

_parse_html(html) == put_anchors(put_table_rows(EmptyDict, html.rows), html.anchors)

\* The characters of the two classes of EMAIL_PATTERN (line 16).
IsEmailLocalChar(c) ==
    IsLowerAscii(c) \/ IsUpperAscii(c) \/ c \in DigitChars \/ c \in { ".", "_", "%", "+", "-" }

IsLetter(c) == IsLowerAscii(c) \/ IsUpperAscii(c)

\* The longest prefix of s whose characters all satisfy Test.
PrefixOf(s, Test(_)) ==
    LET others == { i \in DOMAIN s : ~Test(s[i]) }
    IN  IF others = { } THEN s
        ELSE SubSeq(s, 1, (CHOOSE i \in others : \A j \in others : i <= j) - 1)

Reverse(s) == [ i \in DOMAIN s |-> s[Len(s) + 1 - i] ]

\* The match of EMAIL_PATTERN around the first "@" of a word, << >> when
\* there is none.
EmailIn(word) ==
    LET at     == Find(word, << "@" >>)
        local  == Reverse(PrefixOf(Reverse(SubSeq(word, 1, at - 1)), IsEmailLocalChar))
        run    == PrefixOf(SubSeq(word, at + 1, Len(word)), IsDomainChar)
        dots   == { k \in 2..(Len(run) - 2) :
                        run[k] = "." /\ IsLetter(run[k + 1]) /\ IsLetter(run[k + 2]) }
        dot    == CHOOSE k \in dots : \A j \in dots : j <= k
    IN  IF at = 0 \/ local = << >> \/ dots = { } THEN << >>
        ELSE local \o << "@" >> \o SubSeq(run, 1, dot)
                   \o PrefixOf(SubSeq(run, dot + 1, Len(run)), IsLetter)

\* s.replace(old, " ") for the three texts of line 292.
IsKept(c) == c # "<drop>"

BlankMarkup(s) ==
    LET MAILTO == <<"m","a","i","l","t","o",":">>
        starts(i) == i >= 1 /\ i + 6 <= Len(s) /\ SubSeq(s, i, i + 6) = MAILTO
    IN  SelectSeq([ i \in DOMAIN s |->
                        IF starts(i) \/ s[i] \in { "<", ">" } THEN " "
                        ELSE IF \E k \in 1..6 : starts(i - k) THEN "<drop>"
                        ELSE s[i] ],
                  IsKept)

\* _find_emails as a set: the lower-cased addresses of the words of the text,
\* for words with at most one "@".
_find_emails(text) ==
    LET words == SplitWords(BlankMarkup(text))
    IN  { Lower(EmailIn(words[i])) : i \in DOMAIN words } \ { << >> }

\* The characters of a lower-cased address in code order.
EMAIL_CHAR_ORDER ==
    << "%", "+", "-", ".", "0", "1", "2", "3", "4", "5", "6", "7", "8", "9", "@", "_" >> \o LowerLetters

CharRank(c) == CHOOSE i \in DOMAIN EMAIL_CHAR_ORDER : EMAIL_CHAR_ORDER[i] = c

\* a < b as Python compares str.
RECURSIVE TextLess(_, _)
TextLess(a, b) ==
    IF b = << >> THEN FALSE
    ELSE IF a = << >> THEN TRUE
    ELSE IF Head(a) = Head(b) THEN TextLess(Tail(a), Tail(b))
    ELSE CharRank(Head(a)) < CharRank(Head(b))

\* "; ".join(sorted(texts))
RECURSIVE JoinSorted(_)
JoinSorted(texts) ==
    IF texts = { } THEN << >>
    ELSE LET least == CHOOSE t \in texts : \A u \in texts \ { t } : TextLess(t, u)
         IN  IF texts = { least } THEN least
             ELSE least \o << ";", " " >> \o JoinSorted(texts \ { least })

\* dt.strftime("%Y-%m-%d %H:%M:%S") of a datetime given by its date and time
\* texts; None gives "".
NoDatetime == [ none |-> TRUE ]

_format_datetime(dt) == IF dt = NoDatetime THEN << >> ELSE dt.date \o << " " >> \o dt.time

\* The catalogue labels that parse_email names.
SUBJECT == FIELDS[1]

SENDER == FIELDS[2]

RECEIVED_TIME == FIELDS[3]

ALL_EMAILS_FOUND == FIELDS[4]

EMAIL_ADDRESS == FIELDS[7]

COMPANY == FIELDS[8]

COUNTRY == FIELDS[15]

LEAD_TRIGGERING_ACTIVITIES == FIELDS[21]

ACCOUNT_TYPE == FIELDS[34]

POTENTIAL_DISTRIBUTION_PARTNER == FIELDS[41]

HAS_CONTACT_SALES_FORM == FIELDS[45]

STATUS == FIELDS[46]

ACTION_TAKEN == FIELDS[47]

VALIDATION_STATUS == FIELDS[49]

VALIDATION_REASON == FIELDS[50]

\* Lines 72-78: what the two bodies yield. HAS_BS4 says whether the import of
\* BeautifulSoup succeeded (lines 10-14).
extracted_data(email_item, HAS_BS4) ==
    LET from_html == IF HAS_BS4 /\ email_item.HTMLBody # NoHtml
                     THEN _parse_html(email_item.HTMLBody) ELSE EmptyDict
    IN  DictUpdate(from_html, _parse_text(email_item.Body))

\* Lines 80-90: the row before the checks.
extracted_row(email_item, HAS_BS4) ==
    LET data == extracted_data(email_item, HAS_BS4)
    IN  [ field \in Range(FIELDS) |->
              IF field = SUBJECT THEN email_item.Subject
              ELSE IF field = SENDER THEN email_item.SenderEmailAddress
              ELSE IF field = RECEIVED_TIME THEN _format_datetime(email_item.ReceivedTime)
              ELSE IF field = ALL_EMAILS_FOUND
                   THEN JoinSorted(_find_emails(JoinLines(email_item.Body)))
              ELSE DictGet(data, field) ]

\* The values of the row that the checks of lines 92-128 read.
checked_fields(row) ==
    [ Subject                        |-> row[SUBJECT],
      Company                        |-> row[COMPANY],
      Country                        |-> row[COUNTRY],
      Email_Address                  |-> row[EMAIL_ADDRESS],
      Status                         |-> row[STATUS],
      Account_Type                   |-> row[ACCOUNT_TYPE],
      Lead_Triggering_Activities     |-> row[LEAD_TRIGGERING_ACTIVITIES],
      Potential_Distribution_Partner |-> row[POTENTIAL_DISTRIBUTION_PARTNER] ]

\* Lines 92-128: the extracted row with the five values the checks assign.
checked_row(row, checked) ==
    [ field \in Range(FIELDS) |->
          IF field = HAS_CONTACT_SALES_FORM THEN checked.Has_Contact_Sales_Form
          ELSE IF field = STATUS THEN checked.Status
          ELSE IF field = ACTION_TAKEN THEN checked.Action_Taken
          ELSE IF field = VALIDATION_STATUS THEN checked.Validation_Status
          ELSE IF field = VALIDATION_REASON THEN checked.Validation_Reason
          ELSE row[field] ]

\* ---------------------------------------------------------------------------
\* Calls of EmailParser.parse_email on an Outlook item.
\* ---------------------------------------------------------------------------

MaxBodyLines == 2

MaxHtmlRows == 2

BodyLines == { <<"C","o","m","p","a","n","y",":">>, <<"A","c","m","e">>, <<"C","o","u","n","t","r","y">>, <<"M","a","i","l"," ","j","a","n","e","@","a","c","m","e",".","c","o","m">>, <<"B","u","d","g","e","t",":"," ","5","0","0","0">> }

Bodies == UNION { [ 1..n -> BodyLines ] : n \in 0..MaxBodyLines }

TableRows ==
    { [ label |-> <<"C","o","m","p","a","n","y">>, value |-> <<"H","t","m","l","C","o">>, href |-> << >> ],
      [ label |-> <<"B","u","d","g","e","t">>,  value |-> <<"5","0","0","0">>,   href |-> << >> ],
      [ label |-> <<"C","o","u","n","t","r","y",":">>, value |-> <<"F","r","a","n","c","e">>, href |-> << >> ] }

AnchorLists ==
    { << >>, << [ text |-> <<"C","l","i","c","k"," ","h","e","r","e"," ","t","o"," ","q","u","a","l","i","f","y">>, href |-> <<"h","t","t","p","s",":","/","/","x",".","y","/","q","?","u","=","h","t","t","p","s","%","3","A","%","2","F","%","2","F","z",".","w">> ] >> }

HtmlBodies ==
    { [ rows |-> trs, anchors |-> as ] :
          trs \in UNION { [ 1..n -> TableRows ] : n \in 0..MaxHtmlRows }, as \in AnchorLists }

ParseItems ==
    { [ Subject            |-> <<"P","r","e","-","M","Q","L"," ","r","e","a","d","y">>,
        SenderEmailAddress |-> <<"n","o","r","e","p","l","y","@","e","l","o","q","u","a",".","c","o","m">>,
        ReceivedTime       |-> [ date |-> <<"2","0","2","4","-","0","5","-","0","1">>, time |-> <<"0","9",":","3","0",":","0","0">> ],
        Body               |-> body,
        HTMLBody           |-> html ] : body \in Bodies, html \in HtmlBodies }

InitParse ==
    /\ pc = "call"
    /\ loader = ListedLoader
    /\ args \in [ email_item : ParseItems, HAS_BS4 : BOOLEAN ]
    /\ ret = NoResult
    /\ NoRun

\* EmailParser.parse_email (lines 64-130) on the Outlook item: the fields are
\* extracted, the checks run on them, and the row is returned.
CallParseEmail ==
    /\ pc = "call"
    /\ \E row \in { extracted_row(args.email_item, args.HAS_BS4) } :
          \E checked \in { parse_email(loader, checked_fields(row)) } :
              ret' = [ row |-> checked_row(row, checked) ]
    /\ pc' = "returned"
    /\ UNCHANGED << loader, emails, rows, status_map, move_log, called, sheets, args, earlier, files, searches, locals, _cache, status_updates, driver >>

NextParse == CallParseEmail

SpecParse == InitParse /\ [][NextParse]_vars

\* The table rows of the parsed item whose label is not in the catalogue and
\* whose value is not empty.
UnrecognizedPairs ==
    { tr \in Range(args.email_item.HTMLBody.rows) :
          _normalize_label(tr.label) \notin Range(FIELDS) /\ tr.value # << >> }

\* C21: a label/value pair of the email whose label is not in the field
\* catalogue is in the record parse_email returns, under its raw label and with
\* its value unchanged.
C21_UnrecognizedPairsPreserved ==
    (Returned /\ args.HAS_BS4) =>
        \A tr \in UnrecognizedPairs :
            tr.label \in DOMAIN ret.row /\ ret.row[tr.label] = tr.value

\* What the code does: the returned record has the catalogue labels as its keys
\* and no other key.
C21_RowHasCatalogueKeysOnly == Returned => DOMAIN ret.row = Range(FIELDS)

\* What each of the two bodies of the parsed item yields.
FromHtml == _parse_html(args.email_item.HTMLBody)

FromText == _parse_text(args.email_item.Body)

\* The catalogue fields whose value in the row is the extracted one: not set
\* from the item's attributes (lines 82-85) nor by the checks (lines 93-128).
ExtractedFields ==
    Range(FIELDS) \ { SUBJECT, SENDER, RECEIVED_TIME, ALL_EMAILS_FOUND, HAS_CONTACT_SALES_FORM,
                      STATUS, ACTION_TAKEN, VALIDATION_STATUS, VALIDATION_REASON }

\* C22: the plain text is only a fallback: a field the HTML table yields keeps
\* the HTML value also when the plain text yields one, and a plain-text value
\* is used only for a field the HTML did not yield.
C22_HtmlValueKept ==
    (Returned /\ args.HAS_BS4) =>
        LET html == FromHtml
            text == FromText
        IN  /\ \A field \in DOMAIN html \cap ExtractedFields : ret.row[field] = html[field]
            /\ \A field \in (DOMAIN text \ DOMAIN html) \cap ExtractedFields :
                   ret.row[field] = text[field]

\* What the code does: a field the plain text yields has the plain-text value,
\* whatever the HTML yields.
C22_TextValueWins ==
    Returned =>
        LET html == IF args.HAS_BS4 THEN FromHtml ELSE EmptyDict
            text == FromText
        IN  /\ \A field \in DOMAIN text \cap ExtractedFields : ret.row[field] = text[field]
            /\ \A field \in (DOMAIN html \ DOMAIN text) \cap ExtractedFields :
                   ret.row[field] = html[field]
            /\ \A field \in ExtractedFields \ (DOMAIN html \cup DOMAIN text) :
                   ret.row[field] = << >>

\* ---------------------------------------------------------------------------
\* Calls of EmailParser._parse_text.
\* ---------------------------------------------------------------------------

MaxLines == 3

TextLines ==
    { <<"C","o","m","p","a","n","y",":">>, <<"c","o","u","n","t","r","y">>, <<"A","c","m","e">>, << >>, <<"C","o","p","y","r","i","g","h","t"," ","2","0","2","4">>, <<"C","l","i","c","k"," ","h","e","r","e"," ","h","t","t","p","s",":","/","/","x",".","y","/","q">>,
      <<"s","e","e"," ","C","o","p","y","r","i","g","h","t"," ","n","o","t","e">> }

TextBodies == UNION { [ 1..n -> TextLines ] : n \in 0..MaxLines }

InitParseText ==
    /\ pc = "call"
    /\ loader = EmptyLoader
    /\ args \in [ body : TextBodies ]
    /\ ret = NoResult
    /\ NoRun

CallParseText ==
    /\ pc = "call"
    /\ ret' = [ data |-> _parse_text(args.body) ]
    /\ pc' = "returned"
    /\ UNCHANGED << loader, emails, rows, status_map, move_log, called, sheets, args, earlier, files, searches, locals, _cache, status_updates, driver >>

NextParseText == CallParseText

SpecParseText == InitParseText /\ [][NextParseText]_vars

\* The lines of the body as the scan sees them, the position of the footer
\* (one past the end when there is none) and the positions of the recognized
\* labels before it.
ScannedLines == [ i \in DOMAIN args.body |-> Strip(args.body[i]) ]

Footer ==
    LET marks == { i \in DOMAIN ScannedLines : StartsWith(ScannedLines[i], COPYRIGHT) }
    IN  IF marks = { } THEN Len(ScannedLines) + 1 ELSE CHOOSE i \in marks : \A j \in marks : i <= j

LabelAt(i) == _normalize_label(ScannedLines[i])

Labels == { i \in 1..(Footer - 1) : LabelAt(i) \in Range(FIELDS) }

\* The lines after the label at position j up to the next label or the footer.
LinesAfter(j) ==
    LET stops == { k \in (j + 1)..Footer : k = Footer \/ k \in Labels }
    IN  SubSeq(ScannedLines, j + 1, (CHOOSE k \in stops : \A m \in stops : k <= m) - 1)

\* The last label of a field that has lines after it; 0 when there is none.
LastFilled(field) ==
    LET filled == { j \in Labels : LabelAt(j) = field /\ LinesAfter(j) # << >> }
    IN  IF filled = { } THEN 0 ELSE CHOOSE j \in filled : \A m \in filled : m <= j

FilledFields == { LabelAt(j) : j \in { k \in Labels : LinesAfter(k) # << >> } }

\* C23: scanning the lines in order, a line that is not a recognized label goes
\* to the value of the most recently seen recognized label, lines before the
\* first label and lines at or after the first line starting with 'Copyright'
\* contribute to no field, and the field open at the footer or at the end is
\* emitted with the lines accumulated so far.
C23_LinesAccumulateUnderLastLabel ==
    Returned =>
        /\ DOMAIN ret.data = FilledFields
        /\ \A field \in FilledFields :
               ret.data[field] = JoinLines(SelectSeq(LinesAfter(LastFilled(field)), IsNotEmpty))

\* C23, amended: the same for every field but 'PreMQL review/validation link'
\* and 'Company Matching Status', the emitted value being the cleaned text of
\* the accumulated lines; those two fields may also be set by the later steps
\* of _parse_text, which read every line of the body.
C23_LinesAccumulateButForLinks ==
    Returned =>
        /\ DOMAIN ret.data \ { PREMQL_LINK, COMPANY_MATCHING_STATUS }
               = FilledFields \ { PREMQL_LINK, COMPANY_MATCHING_STATUS }
        /\ \A field \in FilledFields \ { PREMQL_LINK, COMPANY_MATCHING_STATUS } :
               ret.data[field] = _clean_value(Strip(JoinLines(LinesAfter(LastFilled(field)))))

\* A body with a footer has returned the field that was open, with lines
\* accumulated, when the footer was reached.
C23_Witness ==
    /\ Returned
    /\ Footer <= Len(ScannedLines)
    /\ \E j \in Labels :
           /\ Len(LinesAfter(j)) = Footer - 1 - j
           /\ LinesAfter(j) # << >>
           /\ LabelAt(j) \in DOMAIN ret.data

\* ---------------------------------------------------------------------------
\* sap_crm.py: SAPCRMLookup._lookup_internal, one action per search.
\* ---------------------------------------------------------------------------

MaxLookupWords == 3

LookupWords == { <<"A","c","m","e">>, <<"B","o","s","c","h">>, <<"G","m","b","H">> }

LookupNames == { JoinSpace(ws) : ws \in UNION { [ 1..n -> LookupWords ] : n \in 0..MaxLookupWords } }

\* What _find_latest_approved_from_last_page can return after a search: the
\* Sold-to-Party name of an Approved record, or nothing (None or an empty
\* name, both false in 'if sold_to').
SearchResults == { << >>, <<"A","C","M","E"," ","S","E">> }

\* The page helpers between the frame switch and the result: they finish, or
\* one of them raises before or after the search was triggered.
HelperOutcomes == { "done", "raised before search", "raised after search" }

\* 'if sold_to' (lines 332, 353), always false.
search_hit_never(sold_to) == FALSE

\* 'if sold_to' (lines 332, 353).
search_hit(sold_to) == sold_to # << >>

\* One pass of either loop body (lines 313-335, 341-356) for the search term
\* cand: frame says whether the search form was found, helpers how the page
\* helpers ended, sold_to what the result page gave. next_locals are the local
\* variables when the loop goes on.
search_step(operator, cand, frame, helpers, sold_to, next_locals) ==
    LET sent == Append(searches, [ operator |-> operator, value |-> Take(cand, MAX_FIELD_LEN),
                                   sold_to |-> IF helpers = "done" THEN sold_to ELSE << >> ])
    IN  IF ~frame
        THEN /\ ret' = [ sold_to |-> NoField, form_found |-> FALSE ]
             /\ pc' = "returned"
             /\ UNCHANGED << searches, locals >>
        ELSE IF helpers = "raised before search"
        THEN /\ pc' = "raised"
             /\ UNCHANGED << searches, locals, ret >>
        ELSE IF helpers = "raised after search"
        THEN /\ pc' = "raised"
             /\ searches' = sent
             /\ UNCHANGED << locals, ret >>
        ELSE IF search_hit(sold_to)
        THEN /\ ret' = [ sold_to |-> sold_to, form_found |-> TRUE ]
             /\ pc' = "returned"
             /\ searches' = sent
             /\ UNCHANGED locals
        ELSE /\ searches' = sent
             /\ locals' = next_locals
             /\ UNCHANGED << pc, ret >>

InitLookup ==
    /\ pc = "call"
    /\ loader = EmptyLoader
    /\ args \in [ company_name : LookupNames ]
    /\ ret = NoResult
    /\ NoRun

\* Line 311: the candidates are generated and the first loop starts.
StartContains ==
    /\ pc = "call"
    /\ locals' = [ candidates |-> _generate_candidates(args.company_name), i |-> 1,
                   tokens |-> << >>, n |-> 1 ]
    /\ pc' = "contains"
    /\ UNCHANGED << loader, emails, rows, status_map, move_log, called, sheets, args, ret, earlier,
                    files, searches, _cache, status_updates, driver >>

\* Lines 311-335: the 'contains' search of the next candidate.
ContainsSearch ==
    /\ pc = "contains"
    /\ locals.i <= Len(locals.candidates)
    /\ \E frame \in BOOLEAN, helpers \in HelperOutcomes, sold_to \in SearchResults :
           search_step("contains", locals.candidates[locals.i], frame, helpers, sold_to,
                       [ locals EXCEPT !.i = locals.i + 1 ])
    /\ UNCHANGED << loader, emails, rows, status_map, move_log, called, sheets, args, earlier,
                    files, _cache, status_updates, driver >>

\* Line 338: every candidate failed; the fallback loop starts.
StartStartsWith ==
    /\ pc = "contains"
    /\ locals.i > Len(locals.candidates)
    /\ locals' = [ locals EXCEPT !.tokens = SplitWords(_normalize_company_name(args.company_name)),
                                 !.n = 1 ]
    /\ pc' = "starts with"
    /\ UNCHANGED << loader, emails, rows, status_map, move_log, called, sheets, args, ret, earlier,
                    files, searches, _cache, status_updates, driver >>

\* range(1, min(3, len(tokens)) + 1)
LastStartsWith == IF Len(locals.tokens) < 3 THEN Len(locals.tokens) ELSE 3

\* Lines 339-356: the 'starts with' search of the first n words.
StartsWithSearch ==
    /\ pc = "starts with"
    /\ locals.n <= LastStartsWith
    /\ \E frame \in BOOLEAN, helpers \in HelperOutcomes, sold_to \in SearchResults :
           search_step("starts with", JoinSpace(SubSeq(locals.tokens, 1, locals.n)), frame, helpers,
                       sold_to, [ locals EXCEPT !.n = locals.n + 1 ])
    /\ UNCHANGED << loader, emails, rows, status_map, move_log, called, sheets, args, earlier,
                    files, _cache, status_updates, driver >>

\* Line 358: nothing found.
ReturnNotFound ==
    /\ pc = "starts with"
    /\ locals.n > LastStartsWith
    /\ ret' = [ sold_to |-> NoField, form_found |-> TRUE ]
    /\ pc' = "returned"
    /\ UNCHANGED << loader, emails, rows, status_map, move_log, called, sheets, args, earlier,
                    files, searches, locals, _cache, status_updates, driver >>

NextLookup ==
    \/ StartContains
    \/ ContainsSearch
    \/ StartStartsWith
    \/ StartsWithSearch
    \/ ReturnNotFound

SpecLookup == InitLookup /\ [][NextLookup]_vars

\* The searches _lookup_internal can send for the name, in order: 'contains'
\* for each candidate, then 'starts with' for the first 1, 2 and 3 words.
ExpectedSearches ==
    LET cands  == _generate_candidates(args.company_name)
        tokens == SplitWords(_normalize_company_name(args.company_name))
        last   == IF Len(tokens) < 3 THEN Len(tokens) ELSE 3
    IN  [ k \in 1..Len(cands) |-> << "contains", cands[k] >> ] \o
        [ n \in 1..last |-> << "starts with", Take(JoinSpace(SubSeq(tokens, 1, n)), 40) >> ]

SentSearches == [ k \in DOMAIN searches |-> << searches[k].operator, searches[k].value >> ]

\* C24: the 'contains' searches go out in the order of the candidate list, the
\* 'starts with' searches for the first 1, 2, 3 words only after every candidate
\* failed; the first search that yields a name ends the lookup with that name
\* and nothing is searched after it; None is returned when no search yielded a
\* name or when the search form was not found.
C24_FirstHitWins ==
    /\ Len(SentSearches) <= Len(ExpectedSearches)
    /\ SentSearches = SubSeq(ExpectedSearches, 1, Len(SentSearches))
    /\ \A k \in 1..(Len(searches) - 1) : searches[k].sold_to = << >>
    /\ Returned =>
           IF ret.sold_to # NoField
           THEN /\ searches # << >>
                /\ ret.sold_to = searches[Len(searches)].sold_to
                /\ ret.sold_to # << >>
           ELSE /\ \A k \in DOMAIN searches : searches[k].sold_to = << >>
                /\ ~ret.form_found \/ SentSearches = ExpectedSearches

\* A lookup has returned the name found by a 'starts with' search.
C24_Witness ==
    /\ Returned
    /\ ret.sold_to # NoField
    /\ Len(searches) >= 3
    /\ searches[Len(searches)].operator = "starts with"

\* ------------------------------------- calls of EmailMover.process_emails

\* The largest number of rows handed to process_emails.
MaxMoveRows == 2

\* Values of 'Potential Distribution Partner (matching in beta testing)'.
PartnerValues ==
    { <<"A","v","n","e","t",","," ","F","u","t","u","r","e",","," ","A","r","r","o","w">>, <<"R","u","t","r","o","n","i","k"," ","/"," ","f","u","t","u","r","e">>, <<"a","v","n","e","t"," ","r","u","t","r","o","n","i","k">>,
      <<"A","v","n","e","t">>, <<"D","i","g","i","k","e","y">>, <<" ","?"," ">>, << >> }

MoveRows ==
    [ Subject : { <<"M","Q","L">> },
      Has_Contact_Sales_Form : { "Yes", "No" },
      Potential_Distribution_Partner : PartnerValues ]

MoveRowLists == UNION { [ 1..n -> MoveRows ] : n \in 1..MaxMoveRows }

InitMove ==
    /\ pc = "call"
    /\ loader = EmptyLoader
    /\ \E parsed_data \in MoveRowLists, subfolders \in SubfolderChoices :
          args \in [ parsed_data : { parsed_data }, subfolders : { subfolders },
                     move_ok : [ DOMAIN parsed_data -> BOOLEAN ] ]
    /\ ret = NoResult
    /\ NoRun

CallProcessEmails ==
    /\ pc = "call"
    /\ ret' = process_emails(args.parsed_data, args.subfolders, args.move_ok)
    /\ pc' = "returned"
    /\ UNCHANGED << loader, emails, rows, status_map, move_log, called, sheets, args, earlier, files, searches, locals, _cache, status_updates, driver >>

NextMove == CallProcessEmails

SpecMove == InitMove /\ [][NextMove]_vars

\* The partner value of a row names the partner (compared in upper case).
Names(row, partner) == Contains(Upper(row.Potential_Distribution_Partner), partner)

NamesOneOfThree(row) == Names(row, ARROW) \/ Names(row, FUTURE) \/ Names(row, RUTRONIK)

\* The rows of a call on which Move was called: move_log has an entry for
\* every call of Move, successful or not.
MovedRows == { ret.move_log[k].index : k \in DOMAIN ret.move_log }

KnownCompanies ==
    { << >>, <<"M","E","T","U">>, <<"K","o","c"," ","H","o","l","d","i","n","g">>, <<"B","u","r","s","a"," ","T","e","c","h","n","i","c","a","l"," ","U","n","i","v","e","r","s","i","t","y">>, <<"T","U"," ","W","i","e","n">>,
      <<"K","I","T">>, <<"U","C","L">>, <<"A","c","m","e">> }

KnownCountries ==
    { << >>, <<"A","u","s","t","r","i","a">>, <<"T","u","r","k","e","y">>, <<"T","R">>, <<"G","e","r","m","a","n","y">>, <<"S","w","e","d","e","n">>, <<"U","k","r","a","i","n","e">> }

InitKnown ==
    /\ pc = "call"
    /\ loader = EmptyLoader
    /\ args \in [ company : KnownCompanies, country : KnownCountries ]
    /\ ret = NoResult
    /\ NoRun

CallMatchesKnownUniversity ==
    /\ pc = "call"
    /\ ret' = [ matched |-> matches_known_university(args.company, args.country) ]
    /\ pc' = "returned"
    /\ UNCHANGED << loader, emails, rows, status_map, move_log, called, sheets, args, earlier, files, searches, locals, _cache, status_updates, driver >>

NextKnown == CallMatchesKnownUniversity

SpecKnown == InitKnown /\ [][NextKnown]_vars

\* The institutions listed under the key that equals the normalized country.
OwnCountryList(country) ==
    UNION { KNOWN_UNIVERSITIES[k].vals : k \in
              { j \in DOMAIN KNOWN_UNIVERSITIES :
                    KNOWN_UNIVERSITIES[j].key = normalize_text(country) } }

\* C26: matches_known_university matches a company only against the
\* institution list whose key equals the lead's normalized country: a match
\* is always a match with an institution of that list.
C26_OnlyOwnCountryList ==
    (pc = "returned" /\ ret.matched) =>
        \E uni \in OwnCountryList(args.country) :
            uni_matches(normalize_text(args.company), uni)

\* ------------------------------------- the move stage of main()

\* Values of 'Status' that parse_email has set before the move stage.
ClassifiedStatuses == { University_Contact, Academic, Excluded_Domain, Direct_Account, Country }

\* The two fields of a row that determine_target_folder reads.
StagedFields ==
    { [ has_form |-> "No",  partner |-> <<"A","v","n","e","t",","," ","F","u","t","u","r","e",","," ","A","r","r","o","w">> ],
      [ has_form |-> "No",  partner |-> <<"D","i","g","i","k","e","y">> ],
      [ has_form |-> "Yes", partner |-> <<"A","v","n","e","t",","," ","F","u","t","u","r","e",","," ","A","r","r","o","w">> ] }

StagedRows ==
    { [ Subject |-> <<"M","Q","L">>,
        Has_Contact_Sales_Form |-> f.has_form,
        Potential_Distribution_Partner |-> f.partner,
        Status |-> s,
        Action_Taken |-> << >> ] : f \in StagedFields, s \in ClassifiedStatuses \cup { << >> } }

\* The state of main() after line 182.
InitMoveStage ==
    /\ pc = "parsed"
    /\ loader = EmptyLoader
    /\ rows \in UNION { [ 1..n -> StagedRows ] : n \in 1..MaxEmails }
    /\ emails = << >>
    /\ status_map = << >>
    /\ move_log = << >>
    /\ called = { }
    /\ sheets = NoSheets
    /\ args = NoResult
    /\ ret = NoResult
    /\ earlier = NoResult
    /\ files = NoFiles
    /\ NoLookup /\ NoReplay

NextMoveStage == MoveEmails \/ UpdateStatus

SpecMoveStage == InitMoveStage /\ [][NextMoveStage]_vars

\* The folder Move was called with for the row at index i of the run (None
\* when Move was not called on it).
MoveTarget(i) ==
    IF \E k \in DOMAIN move_log : move_log[k].index = i
    THEN move_log[CHOOSE k \in DOMAIN move_log : move_log[k].index = i].to_folder
    ELSE None

\* C27: whether and where an email is moved depends only on 'Has Contact
\* Sales Form' and 'Potential Distribution Partner': two rows of a run that
\* agree on both get the same target whatever their Status, so a row
\* classified University Contact, Academic, Excluded Domain, Direct Account
\* or Country is moved exactly when an unclassified row with the same two
\* fields is.
C27_MoveIgnoresStatus ==
    pc \in { "moved", "updated" } =>
        \A i, j \in DOMAIN rows :
            ( /\ rows[i].Has_Contact_Sales_Form = rows[j].Has_Contact_Sales_Form
              /\ rows[i].Potential_Distribution_Partner = rows[j].Potential_Distribution_Partner )
                => MoveTarget(i) = MoveTarget(j)

\* Two rows with the same two fields, one classified and one not, were both
\* moved to the same partner folder.
C27_Witness ==
    /\ pc = "moved"
    /\ \E i, j \in DOMAIN rows :
          /\ rows[i].Status \in ClassifiedStatuses
          /\ rows[j].Status = << >>
          /\ rows[i].Has_Contact_Sales_Form = rows[j].Has_Contact_Sales_Form
          /\ rows[i].Potential_Distribution_Partner = rows[j].Potential_Distribution_Partner
          /\ MoveTarget(i) = "ARROW"
          /\ MoveTarget(j) = "ARROW"

\* ------------------------------------------------------- move_emails.py

DigitOrder == << "0","1","2","3","4","5","6","7","8","9" >>

\* int() of a string of digits.
RECURSIVE ToNumber(_)
ToNumber(ds) ==
    IF ds = << >> THEN 0
    ELSE 10 * ToNumber(SubSeq(ds, 1, Len(ds) - 1)) + (IndexOf(DigitOrder, ds[Len(ds)]) - 1)

\* A strptime field: digits only, between lo and hi characters long.
IsNumberField(s, lo, hi) ==
    Len(s) \in lo..hi /\ \A i \in DOMAIN s : s[i] \in DigitChars

IsLeapYear(y) == (y % 4 = 0 /\ y % 100 # 0) \/ y % 400 = 0

DaysInMonth(y, m) ==
    IF m = 2 THEN (IF IsLeapYear(y) THEN 29 ELSE 28)
    ELSE IF m \in { 4, 6, 9, 11 } THEN 30 ELSE 31

\* No datetime the source produces has a 'none' field.
NoTime == [ none |-> TRUE ]

\* datetime.strptime(text, "%Y-%m-%d") with the clock fields given (each a
\* sequence of characters); NoTime where strptime raises ValueError.
datetime_of(date, hour, minute, second) ==
    LET d == SplitOn(date, "-")
    IN  IF /\ Len(d) = 3
           /\ IsNumberField(d[1], 4, 4) /\ IsNumberField(d[2], 1, 2) /\ IsNumberField(d[3], 1, 2)
           /\ IsNumberField(hour, 1, 2) /\ IsNumberField(minute, 1, 2) /\ IsNumberField(second, 1, 2)
           /\ ToNumber(d[1]) >= 1
           /\ ToNumber(d[2]) \in 1..12
           /\ ToNumber(d[3]) \in 1..DaysInMonth(ToNumber(d[1]), ToNumber(d[2]))
           /\ ToNumber(hour) <= 23 /\ ToNumber(minute) <= 59 /\ ToNumber(second) <= 59
        THEN [ year |-> ToNumber(d[1]), month |-> ToNumber(d[2]), day |-> ToNumber(d[3]),
               hour |-> ToNumber(hour), minute |-> ToNumber(minute), second |-> ToNumber(second) ]
        ELSE NoTime

\* Lines 127-132: the three formats in turn, the first that parses wins.
parse_received_time(text) ==
    LET parts == SplitOn(text, " ")
        clock == IF Len(parts) = 2 THEN SplitOn(parts[2], ":") ELSE << >>
    IN  IF Len(parts) = 2 /\ Len(clock) = 3
        THEN datetime_of(parts[1], clock[1], clock[2], clock[3])
        ELSE IF Len(parts) = 2 /\ Len(clock) = 2
        THEN datetime_of(parts[1], clock[1], clock[2], << "0" >>)
        ELSE IF Len(parts) = 1
        THEN datetime_of(parts[1], << "0" >>, << "0" >>, << "0" >>)
        ELSE NoTime

\* date.toordinal()
Ordinal(t) ==
    LET y == t.year - 1
    IN  y * 365 + (y \div 4) - (y \div 100) + (y \div 400)
          + (IF t.month > 1 THEN 31 ELSE 0)
          + (IF t.month > 2 THEN DaysInMonth(t.year, 2) ELSE 0)
          + (IF t.month > 3 THEN 31 ELSE 0) + (IF t.month > 4 THEN 30 ELSE 0)
          + (IF t.month > 5 THEN 31 ELSE 0) + (IF t.month > 6 THEN 30 ELSE 0)
          + (IF t.month > 7 THEN 31 ELSE 0) + (IF t.month > 8 THEN 31 ELSE 0)
          + (IF t.month > 9 THEN 30 ELSE 0) + (IF t.month > 10 THEN 31 ELSE 0)
          + (IF t.month > 11 THEN 30 ELSE 0)
          + t.day

\* (a - b).total_seconds()
total_seconds(a, b) ==
    (Ordinal(a) - Ordinal(b)) * 86400
      + (a.hour - b.hour) * 3600 + (a.minute - b.minute) * 60 + (a.second - b.second)

AbsInt(n) == IF n < 0 THEN 0 - n ELSE n

MinInt(a, b) == IF a < b THEN a ELSE b

\* The smallest index of a non-empty set of indices.
FirstIndex(S) == CHOOSE i \in S : \A j \in S : i <= j

TOLERANCE_SECONDS == 300
FIRST_PASS_LIMIT == 1000
SECOND_PASS_LIMIT == 500
OL_MAIL == 43

\* find_email_by_subject_and_date without the subject-only pass (lines 170-182).
find_email_first_pass_only(items, subject, received_time, aware) ==
    LET target_time == parse_received_time(Strip(received_time))
        first_pass == { i \in 1 .. (MinInt(Len(items) + 1, FIRST_PASS_LIMIT) - 1) :
                          /\ items[i].Class = OL_MAIL
                          /\ Lower(Strip(items[i].Subject)) = Lower(Strip(subject))
                          /\ ~ aware
                          /\ AbsInt(total_seconds(items[i].ReceivedTime, target_time)) <= TOLERANCE_SECONDS }
    IN  IF target_time = NoTime \/ first_pass = { } THEN 0 ELSE FirstIndex(first_pass)

\* Lines 107-188. items is folder.Items after Sort("[ReceivedTime]", True);
\* aware tells whether Outlook hands out timezone-aware datetimes, for which
\* the subtraction of the naive target_time raises TypeError. The result is
\* the position of the returned item in items, 0 for None.
find_email_by_subject_and_date(items, subject, received_time, aware) ==
    LET target_time == parse_received_time(Strip(received_time))
        subject_normalized == Lower(Strip(subject))
        subject_matches(i) ==
            /\ items[i].Class = OL_MAIL
            /\ Lower(Strip(items[i].Subject)) = subject_normalized
        time_matches(i) ==
            LET item_received == items[i].ReceivedTime
            IN  IF aware
                THEN /\ item_received.year = target_time.year
                     /\ item_received.month = target_time.month
                     /\ item_received.day = target_time.day
                ELSE AbsInt(total_seconds(item_received, target_time)) <= TOLERANCE_SECONDS
        first_pass == { i \in 1 .. (MinInt(Len(items) + 1, FIRST_PASS_LIMIT) - 1) :
                          subject_matches(i) /\ time_matches(i) }
        second_pass == { i \in 1 .. (MinInt(Len(items) + 1, SECOND_PASS_LIMIT) - 1) :
                          subject_matches(i) }
    IN  IF target_time = NoTime THEN 0
        ELSE IF first_pass # { } THEN FirstIndex(first_pass)
        ELSE IF second_pass # { } THEN FirstIndex(second_pass)
        ELSE 0

\* ------------------------- calls of find_email_by_subject_and_date

\* The largest number of items in the searched folder.
MaxItems == 2

ItemTimes ==
    { [ year |-> 2024, month |-> 1, day |-> 15, hour |-> 10, minute |-> 30, second |-> 0 ],
      [ year |-> 2024, month |-> 1, day |-> 15, hour |-> 10, minute |-> 33, second |-> 20 ],
      [ year |-> 2024, month |-> 1, day |-> 15, hour |-> 12, minute |-> 0, second |-> 0 ],
      [ year |-> 2024, month |-> 1, day |-> 16, hour |-> 10, minute |-> 30, second |-> 0 ] }

\* Mail items, and a meeting request (Class 53) with the subject of a lead.
FolderItems ==
    [ Class : { OL_MAIL }, Subject : { <<"L","e","a","d"," ","A">>, <<" ","l","e","a","d"," ","a">>, <<"L","e","a","d"," ","B">> }, ReceivedTime : ItemTimes ]
      \cup [ Class : { 53 }, Subject : { <<"L","e","a","d"," ","A">> }, ReceivedTime : ItemTimes ]

\* Most recent first, as items.Sort("[ReceivedTime]", True) leaves them.
IsSortedDescending(items) ==
    \A i \in 1 .. (Len(items) - 1) :
        total_seconds(items[i].ReceivedTime, items[i + 1].ReceivedTime) >= 0

SortedFolders ==
    { items \in UNION { [ 1..n -> FolderItems ] : n \in 0..MaxItems } : IsSortedDescending(items) }

\* The 'ReceivedTime' cell of a row as str() gives it.
ReceivedTimeCells ==
    { <<"2","0","2","4","-","0","1","-","1","5"," ","1","0",":","3","0",":","0","0">>, <<"2","0","2","4","-","0","1","-","1","5"," ","1","0",":","3","0">>, <<"2","0","2","4","-","0","1","-","1","5">>, <<"n","a","n">> }

InitFind ==
    /\ pc = "call"
    /\ loader = EmptyLoader
    /\ args \in [ items : SortedFolders, subject : { <<"L","e","a","d"," ","A"," ">>, <<"l","e","a","d"," ","b">> },
                  received_time : ReceivedTimeCells, aware : BOOLEAN ]
    /\ ret = NoResult
    /\ NoRun

CallFindEmail ==
    /\ pc = "call"
    /\ ret' = [ item |-> find_email_by_subject_and_date(args.items, args.subject,
                                                        args.received_time, args.aware) ]
    /\ pc' = "returned"
    /\ UNCHANGED << loader, emails, rows, status_map, move_log, called, sheets, args, earlier, files, searches, locals, _cache, status_updates, driver >>

NextFind == CallFindEmail

SpecFind == InitFind /\ [][NextFind]_vars

\* The item at position i is a mail item with the row's subject.
HasRowSubject(i) ==
    /\ args.items[i].Class = OL_MAIL
    /\ Lower(Strip(args.items[i].Subject)) = Lower(Strip(args.subject))

RowTime == parse_received_time(Strip(args.received_time))

\* The item at position i was received within 300 seconds of the row's time.
InWindow(i) ==
    /\ RowTime # NoTime
    /\ AbsInt(total_seconds(args.items[i].ReceivedTime, RowTime)) <= TOLERANCE_SECONDS

SameDay(i) ==
    /\ RowTime # NoTime
    /\ Ordinal(args.items[i].ReceivedTime) = Ordinal(RowTime)

\* The first position of items that satisfies both tests, 0 when none does.
FirstWith(P(_), Q(_)) ==
    IF \E i \in DOMAIN args.items : P(i) /\ Q(i)
    THEN FirstIndex({ i \in DOMAIN args.items : P(i) /\ Q(i) })
    ELSE 0

\* C28 as stated: the returned item has the row's subject; it is the first
\* same-subject item within 300 seconds of the row's time, and when there is
\* none the first same-subject item whatever its time.
C28_SubjectThenWindow ==
    pc = "returned" =>
        /\ ret.item # 0 => HasRowSubject(ret.item)
        /\ ret.item = IF FirstWith(HasRowSubject, InWindow) # 0
                      THEN FirstWith(HasRowSubject, InWindow)
                      ELSE FirstWith(HasRowSubject, HasRowSubject)

\* C28 amended: nothing is returned when the row's time cannot be parsed;
\* otherwise the returned item has the row's subject, and it is the first
\* same-subject item within 300 seconds of the row's time (on the same day,
\* when the time difference cannot be computed), or when there is none the
\* first same-subject item whatever its time.
C28_SubjectThenWindowOrDay ==
    pc = "returned" =>
        /\ ret.item # 0 => HasRowSubject(ret.item)
        /\ ret.item = IF RowTime = NoTime THEN 0
                      ELSE IF args.aware /\ FirstWith(HasRowSubject, SameDay) # 0
                      THEN FirstWith(HasRowSubject, SameDay)
                      ELSE IF ~ args.aware /\ FirstWith(HasRowSubject, InWindow) # 0
                      THEN FirstWith(HasRowSubject, InWindow)
                      ELSE FirstWith(HasRowSubject, HasRowSubject)

\* No same-subject item lies within the window, and the item returned was
\* received on another day than the row's time.
C28_Witness ==
    /\ pc = "returned"
    /\ ret.item # 0
    /\ ~ args.aware
    /\ \A i \in DOMAIN args.items : ~ (HasRowSubject(i) /\ InWindow(i))
    /\ ~ SameDay(ret.item)
    /\ \E i \in DOMAIN args.items : i < ret.item /\ ~ HasRowSubject(i)

\* --------------------------------------------------- web_automation.py
\* The arrow of the three 'Take Action' options is written '->'.

RADIO_MAP_KEYS ==
    { <<"V","a","l","i","d"," ","C","o","m","p","a","n","y"," ","-",">"," ","M","Q","L">>, <<"V","a","l","i","d"," ","C","o","m","p","a","n","y"," ","-",">"," ","R","e","j","e","c","t">>, <<"I","n","v","a","l","i","d"," ","C","o","m","p","a","n","y">> }

NAN == <<"n","a","n">>

\* str(e) of the exception a failed browser step raises.
EXCEPTION_TEXT == <<"M","e","s","s","a","g","e",":"," ","e","l","e","m","e","n","t"," ","c","l","i","c","k"," ","i","n","t","e","r","c","e","p","t","e","d",":"," ","E","l","e","m","e","n","t"," ","i","s"," ","n","o","t"," ","c","l","i","c","k","a","b","l","e"," ","a","t"," ","p","o","i","n","t"," ","(","1","0",","," ","2","0",")">>

\* Lines 450-465. submit names the button that can be clicked: "submitBtn",
\* "input[type='submit']" (the fallback) or "none".
_submit_form(submit) == [ raised |-> submit \notin { "submitBtn", "input[type='submit']" } ]

\* The fields _fill_validation_form tries to fill for a row (lines 253-323);
\* each attempt has its own try/except.
fields_to_fill(data) ==
    IF Contains(data.take_action, <<"M","Q","L">>)
    THEN { f \in { "company", "additional_info", "send_to" } : data[f] # << >> }
    ELSE IF Contains(data.take_action, <<"R","e","j","e","c","t">>)
    THEN { f \in { "reject_reason" } : data[f] # << >> }
    ELSE IF Contains(data.take_action, <<"I","n","v","a","l","i","d">>)
    THEN { f \in { "invalid_reason" } : data[f] # << >> }
    ELSE { }

\* _fill_validation_form without the try/except around each field.
_fill_validation_form_fill_errors_propagate(data, page) ==
    LET radio == IF data.take_action \notin RADIO_MAP_KEYS THEN "none"
                 ELSE IF page.radio THEN "clicked" ELSE "raised"
        fills == IF fields_to_fill(data) = { } THEN "none"
                 ELSE IF page.fill THEN "filled" ELSE "failed"
        ok    == radio # "raised" /\ fills # "failed" /\ ~ _submit_form(page.submit).raised
    IN  [ success |-> ok, error |-> IF ok THEN << >> ELSE Take(EXCEPTION_TEXT, 100),
          did |-> [ load |-> "ok", radio |-> radio, fills |-> fills,
                    submit |-> IF ok THEN "submitted"
                               ELSE IF radio # "raised" /\ fills # "failed" THEN "failed" ELSE "none" ] ]

\* Lines 234-330. page tells for each browser step whether it works; the
\* result carries what the browser was made to do.
_fill_validation_form(data, page) ==
    LET take_action == data.take_action
        radio   == IF take_action \notin RADIO_MAP_KEYS THEN "none"
                   ELSE IF page.radio THEN "clicked" ELSE "raised"
        fills   == IF fields_to_fill(data) = { } THEN "none"
                   ELSE IF page.fill THEN "filled" ELSE "failed"
    IN  IF radio = "raised"
        THEN [ success |-> FALSE, error |-> Take(EXCEPTION_TEXT, 100),
               did |-> [ load |-> "ok", radio |-> radio, fills |-> "none", submit |-> "none" ] ]
        ELSE IF _submit_form(page.submit).raised
        THEN [ success |-> FALSE, error |-> Take(EXCEPTION_TEXT, 100),
               did |-> [ load |-> "ok", radio |-> radio, fills |-> fills, submit |-> "failed" ] ]
        ELSE [ success |-> TRUE, error |-> << >>,
               did |-> [ load |-> "ok", radio |-> radio, fills |-> fills, submit |-> "submitted" ] ]

\* Lines 213-230, for sheet_type "Validation".
_fill_form(form_data, page) ==
    IF page.load = "timeout"
    THEN [ success |-> FALSE, error |-> <<"T","i","m","e","o","u","t"," ","l","o","a","d","i","n","g"," ","p","a","g","e">>,
           did |-> [ load |-> "timeout", radio |-> "none", fills |-> "none", submit |-> "none" ] ]
    ELSE IF page.load = "error"
    THEN [ success |-> FALSE, error |-> Take(EXCEPTION_TEXT, 50),
           did |-> [ load |-> "error", radio |-> "none", fills |-> "none", submit |-> "none" ] ]
    ELSE _fill_validation_form(form_data, page)

\* Lines 180-194: "nan" cells become empty.
_prepare_validation_data(row) ==
    LET cell(v) == IF Strip(v) = NAN THEN << >> ELSE Strip(v)
    IN  [ take_action     |-> cell(row.Take_Action),
          company         |-> cell(row.Company),
          reject_reason   |-> cell(row.Reject_Reason),
          invalid_reason  |-> cell(row.Invalid_Company_Reason),
          additional_info |-> cell(row.Additional_Scoring_Information),
          send_to         |-> cell(row.Send_to) ]

\* The datetime.now() of line 134, formatted.
NOW == <<"2","0","2","4","-","0","1","-","1","5"," ","1","0",":","3","0",":","0","0">>

\* One pass of the loop of process_excel_file (lines 102-141) on the
\* Validation sheet: the status recorded for the row and what the browser did.
process_row(row, page) ==
    LET take_action == Strip(row.Take_Action)
        link == Strip(row.PreMQL_Link)
    IN  IF take_action = << >> \/ take_action = NAN
        THEN [ status |-> Fmt("Skipped - No Take Action", NoText, NoText), did |-> << >> ]
        ELSE IF link = << >> \/ link = NAN \/ ~ StartsWith(link, <<"h","t","t","p">>)
        THEN [ status |-> Fmt("Skipped - No Link", NoText, NoText), did |-> << >> ]
        ELSE LET filled == _fill_form(_prepare_validation_data(row), page)
             IN  IF filled.success
                 THEN [ status |-> Fmt("Success - {timestamp}", NOW, NoText), did |-> << filled.did >> ]
                 ELSE [ status |-> Fmt("Failed - {error_msg}", filled.error, NoText),
                        did |-> << filled.did >> ]

\* ------------------------------------- calls of process_excel_file

\* The largest number of rows of the Validation sheet.
MaxSheetRows == 2

SheetRow(take_action, link, value) ==
    [ Take_Action |-> take_action, PreMQL_Link |-> link, Company |-> value,
      Reject_Reason |-> value, Invalid_Company_Reason |-> value,
      Additional_Scoring_Information |-> value, Send_to |-> value ]

FORM_LINK == <<"h","t","t","p","s",":","/","/","x",".","y","/","f","o","r","m","?","i","d","=","1">>

SheetRows ==
    { SheetRow(<<"V","a","l","i","d"," ","C","o","m","p","a","n","y"," ","-",">"," ","M","Q","L">>, FORM_LINK, <<"A","c","m","e">>),
      SheetRow(<<"V","a","l","i","d"," ","C","o","m","p","a","n","y"," ","-",">"," ","R","e","j","e","c","t">>, FORM_LINK, <<"D","u","p","l","i","c","a","t","e">>),
      SheetRow(<<"I","n","v","a","l","i","d"," ","C","o","m","p","a","n","y">>, FORM_LINK, NAN),
      SheetRow(<<"V","a","l","i","d"," ","C","o","m","p","a","n","y"," ","-"," ","M","Q","L">>, FORM_LINK, <<"A","c","m","e">>),
      SheetRow(<<"C","a","l","l"," ","b","a","c","k">>, FORM_LINK, << >>),
      SheetRow(NAN, FORM_LINK, <<"A","c","m","e">>),
      SheetRow(<<"I","n","v","a","l","i","d"," ","C","o","m","p","a","n","y">>, <<"s","e","e"," ","m","a","i","l">>, <<"C","l","o","s","e","d">>) }

PageOutcomes ==
    [ load : { "ok", "timeout", "error" }, radio : BOOLEAN, fill : BOOLEAN,
      submit : { "submitBtn", "input[type='submit']", "none" } ]

\* Line 98: the sheet has been read.
InitReplay ==
    /\ pc = "rows"
    /\ loader = EmptyLoader
    /\ rows \in UNION { [ 1..n -> SheetRows ] : n \in 1..MaxSheetRows }
    /\ locals = [ index |-> 1 ]
    /\ status_updates = << >>
    /\ driver = << >>
    /\ emails = << >>
    /\ status_map = << >>
    /\ move_log = << >>
    /\ called = { }
    /\ sheets = NoSheets
    /\ args = NoResult
    /\ ret = NoResult
    /\ earlier = NoResult
    /\ files = NoFiles
    /\ searches = << >>
    /\ _cache = << >>

\* Lines 102-141: one row of the sheet.
ProcessRow ==
    /\ pc = "rows"
    /\ locals.index <= Len(rows)
    /\ \E page \in PageOutcomes :
          LET done == process_row(rows[locals.index], page)
          IN  /\ status_updates' = Append(status_updates, done.status)
              /\ driver' = Append(driver, done.did)
    /\ locals' = [ index |-> locals.index + 1 ]
    /\ UNCHANGED << pc, loader, emails, rows, status_map, move_log, called, sheets, args, ret, earlier, files, searches, _cache >>

\* Line 145: the loop is over and the statuses are written back.
UpdateExcelSheet ==
    /\ pc = "rows"
    /\ locals.index > Len(rows)
    /\ pc' = "written"
    /\ UNCHANGED << loader, emails, rows, status_map, move_log, called, sheets, args, ret, earlier, files, searches, locals, _cache, status_updates, driver >>

NextReplay == ProcessRow \/ UpdateExcelSheet

SpecReplay == InitReplay /\ [][NextReplay]_vars

\* The rows the loop did not skip: the browser was sent to their link.
Replayed == { i \in DOMAIN driver : driver[i] # << >> }

IsFailed(i) == status_updates[i].fmt = "Failed - {error_msg}"

IsSuccess(i) == status_updates[i].fmt = "Success - {timestamp}"

\* C29 as stated: a replayed row is recorded as Failed exactly when the
\* radio click or the submit failed, and as Success otherwise.
C29_FailedOnlyOnRadioOrSubmit ==
    \A i \in Replayed :
        /\ IsFailed(i) <=> (driver[i][1].radio = "raised" \/ driver[i][1].submit = "failed")
        /\ IsSuccess(i) <=> ~ IsFailed(i)

\* C29 amended: a replayed row is recorded as Failed exactly when the page
\* did not load, the radio click raised or the submit failed; otherwise the
\* form was submitted and the row is recorded as Success, also when no radio
\* was selected and when filling a field failed.
C29_FailedOnLoadRadioOrSubmit ==
    \A i \in Replayed :
        /\ IsFailed(i) <=> \/ driver[i][1].load # "ok"
                           \/ driver[i][1].radio = "raised"
                           \/ driver[i][1].submit = "failed"
        /\ IsSuccess(i) <=> ~ IsFailed(i)
        /\ IsSuccess(i) <=> driver[i][1].submit = "submitted"

\* A row whose option is not one of the three and whose fields could not be
\* filled was submitted and recorded as Success.
C29_Witness ==
    \E i \in Replayed :
        /\ Strip(rows[i].Take_Action) \notin RADIO_MAP_KEYS
        /\ driver[i][1].radio = "none"
        /\ driver[i][1].fills = "failed"
        /\ driver[i][1].submit = "submitted"
        /\ IsSuccess(i)

\* ------------------------------------- calls of SAPCRMLookup.lookup

\* The largest number of lookup calls made on one SAPCRMLookup object.
MaxLookups == 3

\* Company names handed to lookup; NoField is None.
CachedNames == { <<"A","c","m","e">>, <<" ","A","c","m","e"," ">>, <<"B","o","s","c","h">>, <<" "," ">>, << >>, NoField }

\* How a call of _lookup_internal ends: with a Sold-to-Party name, with None,
\* or with an exception of one of its page helpers.
InternalOutcomes ==
    { [ raised |-> FALSE, value |-> <<"A","C","M","E"," ","S","E">> ], [ raised |-> FALSE, value |-> NoField ],
      [ raised |-> TRUE, value |-> NoField ] }

\* Line 299: (company_name or "").strip()
cache_key(company_name) == IF company_name = NoField THEN << >> ELSE Strip(company_name)

\* lookup storing a result only when a name was found.
lookup_caches_hits_only(cache, company_name, outcome) ==
    LET key == cache_key(company_name)
    IN  IF key = << >>
        THEN [ ret |-> [ value |-> NoField ], cache |-> cache, searched |-> << >> ]
        ELSE IF key \in DOMAIN cache
        THEN [ ret |-> [ value |-> cache[key] ], cache |-> cache, searched |-> << >> ]
        ELSE [ ret |-> IF outcome.raised THEN [ raised |-> TRUE ] ELSE [ value |-> outcome.value ],
               cache |-> IF outcome.raised \/ outcome.value = NoField THEN cache
                         ELSE DictPut(cache, key, outcome.value),
               searched |-> << [ company_name |-> company_name, outcome |-> outcome ] >> ]

\* Lines 298-307. cache is self._cache and outcome is how _lookup_internal
\* ends if it is called; searched lists the calls of _lookup_internal.
lookup(cache, company_name, outcome) ==
    LET key == cache_key(company_name)
    IN  IF key = << >>
        THEN [ ret |-> [ value |-> NoField ], cache |-> cache, searched |-> << >> ]
        ELSE IF key \in DOMAIN cache
        THEN [ ret |-> [ value |-> cache[key] ], cache |-> cache, searched |-> << >> ]
        ELSE IF outcome.raised
        THEN [ ret |-> [ raised |-> TRUE ], cache |-> cache,
               searched |-> << [ company_name |-> company_name, outcome |-> outcome ] >> ]
        ELSE [ ret |-> [ value |-> outcome.value ], cache |-> DictPut(cache, key, outcome.value),
               searched |-> << [ company_name |-> company_name, outcome |-> outcome ] >> ]

\* Line 296: a new SAPCRMLookup has an empty cache.
InitCache ==
    /\ pc = "idle"
    /\ loader = EmptyLoader
    /\ _cache = EmptyDict
    /\ searches = << >>
    /\ locals = [ calls |-> 0 ]
    /\ args = NoResult
    /\ ret = NoResult
    /\ emails = << >>
    /\ rows = << >>
    /\ status_map = << >>
    /\ move_log = << >>
    /\ called = { }
    /\ sheets = NoSheets
    /\ earlier = NoResult
    /\ files = NoFiles
    /\ NoReplay

CallLookup ==
    /\ pc = "idle"
    /\ locals.calls < MaxLookups
    /\ \E company_name \in CachedNames, outcome \in InternalOutcomes :
          LET done == lookup(_cache, company_name, outcome)
          IN  /\ args' = [ company_name |-> company_name ]
              /\ ret' = done.ret
              /\ _cache' = done.cache
              /\ searches' = searches \o done.searched
    /\ locals' = [ calls |-> locals.calls + 1 ]
    /\ UNCHANGED << pc, loader, emails, rows, status_map, move_log, called, sheets, earlier, files, status_updates, driver >>

NextCache == CallLookup

SpecCache == InitCache /\ [][NextCache]_vars

\* The trimmed names for which _lookup_internal has returned normally.
SearchedKeys ==
    { cache_key(searches[i].company_name) :
          i \in { j \in DOMAIN searches : ~ searches[j].outcome.raised } }

\* C30: in every call of lookup, an empty or blank name gives None without
\* a search and without a cache entry; a name whose trimmed form is cached
\* gives the cached result (None included) without a search; and a search
\* is run only for a trimmed name for which no search has returned before.
C30_SearchOncePerName ==
    [][ LET key == cache_key(args'.company_name)
        IN  /\ key = << >> =>
                  ret' = [ value |-> NoField ] /\ searches' = searches /\ _cache' = _cache
            /\ (key # << >> /\ key \in DOMAIN _cache) =>
                  ret' = [ value |-> _cache[key] ] /\ searches' = searches /\ _cache' = _cache
            /\ searches' # searches =>
                  /\ key # << >>
                  /\ key \notin SearchedKeys
                  /\ Len(searches') = Len(searches) + 1
            /\ << >> \notin DOMAIN _cache' ]_vars

\* The search for 'Acme' returned None, and a later call with ' Acme ' got
\* the cached None without a second search.
C30_Witness ==
    /\ locals.calls = 2
    /\ Len(searches) = 1
    /\ searches[1].outcome = [ raised |-> FALSE, value |-> NoField ]
    /\ args.company_name # searches[1].company_name
    /\ cache_key(args.company_name) = cache_key(searches[1].company_name)
    /\ ret = [ value |-> NoField ]

====
